---- MODULE Spec2Model ----
(***************************************************************************)
(* A model of the tree-walking interpreter: the runtime values             *)
(* (runtime.rs), the environment chain (env.rs), the evaluator             *)
(* (interpreter.rs), the recursive-descent parser (parser.rs) and the      *)
(* lexer (lexer.rs).                                                       *)
(*                                                                         *)
(* The Rust functions are recursive; each becomes a RECURSIVE operator of  *)
(* the same name that takes the state it works on and gives back the state *)
(* it leaves together with its result (Done for the evaluator, Parsed for  *)
(* the parser, Lexed for the lexer).                                       *)
(* The finite f64 numbers are integers here; the infinities and NaN are    *)
(* values of their own (Infinity, NegInfinity, NaN).                       *)
(***************************************************************************)
EXTENDS Integers, Sequences, FiniteSets, TLC

VARIABLES
    interp,     \* the Interpreter: envs (the heap of environments), global, current, out
    trace,      \* what the last interpreted declaration did, event by event
    result,     \* the anyhow::Result of the last interpreted declaration
    steps,      \* how many top-level declarations interpret() has run
    parser,     \* the Parser: tokens, current, errors
    declarations, \* the Vec<Declaration> built by parse()
    pstatus,    \* where parse() is: "parsing", "done", "panic", "diverged"
    lastsync,   \* the last call of synchronize: cursor before and after
    lexer,      \* the Lexer: source, current, start, line, tokens, errors
    lstatus,    \* where tokenize() is: "new", "scanning", "done", "panic"
    lresult     \* the anyhow::Result of tokenize()

vars == <<interp, trace, result, steps, parser, declarations, pstatus, lastsync,
          lexer, lstatus, lresult>>
ivars == <<interp, trace, result, steps>>
pvars == <<parser, declarations, pstatus, lastsync>>
lvars == <<lexer, lstatus, lresult>>

----------------------------------------------------------------------------
(* Bounds *)

MaxSteps == 3      \* top-level declarations given to interpret()
MaxFuel == 6       \* loop iterations and calls one declaration may use
MaxTokens == 5     \* length of the token lists given to the parser
MaxParens == 2     \* '(' tokens in one list, which bounds the nesting of the parse
MaxEnvs == 3       \* environments on the heap when the operations of Environment run alone
MaxSource == 4     \* characters of the sources given to the lexer

----------------------------------------------------------------------------
(* token.rs, grammar.rs: tokens and the AST *)

Token(lexeme, ty, line) == [lexeme |-> lexeme, ty |-> ty, line |-> line]

None == [k |-> "None"]

LetDecl(ident, init) == [t |-> "LetDecl", ident |-> ident, init |-> init]
FnDecl(ident, params, body) == [t |-> "FnDecl", ident |-> ident, params |-> params, body |-> body]
StmtDecl(stmt) == [t |-> "StmtDecl", stmt |-> stmt]

ExprStmt(expr) == [t |-> "ExprStmt", expr |-> expr]
BlockStmt(stmts) == [t |-> "BlockStmt", stmts |-> stmts]
IfStmt(condition, if_branch, else_branch) ==
    [t |-> "IfStmt", condition |-> condition, if_branch |-> if_branch, else_branch |-> else_branch]
WhileStmt(condition, body) == [t |-> "WhileStmt", condition |-> condition, body |-> body]
ReturnStmt(return_token, expr) == [t |-> "ReturnStmt", return_token |-> return_token, expr |-> expr]

Literal(lit) == [t |-> "Literal", lit |-> lit]
Var(token) == [t |-> "Var", token |-> token]
Call(callee, paren_token, args) ==
    [t |-> "Call", callee |-> callee, paren_token |-> paren_token, args |-> args]
Unary(operator, expr) == [t |-> "Unary", operator |-> operator, expr |-> expr]
Binary(left, operator, right) == [t |-> "Binary", left |-> left, operator |-> operator, right |-> right]
Logical(left, operator, right) == [t |-> "Logical", left |-> left, operator |-> operator, right |-> right]
Range(left, right) == [t |-> "Range", left |-> left, right |-> right]
Grouping(expr) == [t |-> "Grouping", expr |-> expr]
Assignment(ident, expr) == [t |-> "Assignment", ident |-> ident, expr |-> expr]

\* enum literal -> boolean(bool) | number(f64) | str(String) | null
LitBoolean(b) == [k |-> "Boolean", b |-> b]
LitNumber(n) == [k |-> "Number", n |-> n]
LitStr(s) == [k |-> "Str", s |-> s]
LitNull == [k |-> "Null"]

----------------------------------------------------------------------------
(* runtime.rs: values *)

Number(n) == [k |-> "Number", n |-> n]

\* The f64 values that are not finite.  A digit run beyond f64::MAX parses
\* to the infinity; the arithmetic below gives the others.
Infinity == [k |-> "Number", n |-> 0, fp |-> "inf"]
NegInfinity == [k |-> "Number", n |-> 0, fp |-> "-inf"]
NaN == [k |-> "Number", n |-> 0, fp |-> "NaN"]
is_finite(a) == a \notin {Infinity, NegInfinity, NaN}

\* -1, 0 or 1 for a number that is not NaN
Sign(a) ==
    IF a = Infinity THEN 1 ELSE IF a = NegInfinity THEN -1
    ELSE IF a.n > 0 THEN 1 ELSE IF a.n < 0 THEN -1 ELSE 0

\* f64: -a, a + b, a * b, a / b (b is not zero), a == b and a.partial_cmp(b)
f64_neg(a) ==
    IF a = NaN THEN NaN ELSE IF a = Infinity THEN NegInfinity
    ELSE IF a = NegInfinity THEN Infinity ELSE Number(0 - a.n)

f64_add(a, b) ==
    IF a = NaN \/ b = NaN THEN NaN
    ELSE IF is_finite(a) /\ is_finite(b) THEN Number(a.n + b.n)
    ELSE IF is_finite(a) THEN b
    ELSE IF is_finite(b) \/ a = b THEN a
    ELSE NaN

f64_mul(a, b) ==
    IF a = NaN \/ b = NaN THEN NaN
    ELSE IF is_finite(a) /\ is_finite(b) THEN Number(a.n * b.n)
    ELSE IF Sign(a) * Sign(b) = 0 THEN NaN
    ELSE IF Sign(a) * Sign(b) > 0 THEN Infinity ELSE NegInfinity

f64_div(a, b) ==
    IF a = NaN \/ b = NaN THEN NaN
    ELSE IF is_finite(a) /\ is_finite(b) THEN Number(a.n \div b.n)
    ELSE IF is_finite(a) THEN Number(0)
    ELSE IF ~is_finite(b) THEN NaN
    ELSE IF Sign(a) * Sign(b) > 0 THEN Infinity ELSE NegInfinity

f64_eq(a, b) == a # NaN /\ b # NaN /\ a = b

f64_partial_cmp(a, b) ==
    LET rank(x) == IF x = Infinity THEN 1 ELSE IF x = NegInfinity THEN -1 ELSE 0
    IN IF a = NaN \/ b = NaN THEN "None"
       ELSE IF rank(a) < rank(b) THEN "Less"
       ELSE IF rank(a) > rank(b) THEN "Greater"
       ELSE IF ~is_finite(a) THEN "Equal"
       ELSE IF a.n < b.n THEN "Less" ELSE IF a.n = b.n THEN "Equal" ELSE "Greater"

Str(s) == [k |-> "Str", s |-> s]
Boolean(b) == [k |-> "Boolean", b |-> b]
Null == [k |-> "Null"]
Callable(c) == [k |-> "Callable", c |-> c]

\* A user function is its declaration and nothing else.  `site` is not a
\* field of the Rust struct: it remembers the environment that was current
\* at the declaration so that properties can speak of the definition site.
\* No operator of the model reads it.
Function(declaration, site) == [kind |-> "Function", declaration |-> declaration, site |-> site]
Println == [kind |-> "Println"]

\* Results: anyhow::Result<T>.  An Err carries either a diagnostic or the
\* Return signal (error.rs).  Panic is a host panic; Fuel marks an
\* evaluation that did not end within MaxFuel and is never a program result.
Unit == [k |-> "Unit"]
Ok(v) == [k |-> "Ok", v |-> v]
Diag(fam, line, msg) == [k |-> "Err", fam |-> fam, line |-> line, msg |-> msg]
runtime_error(line, msg) == Diag("RuntimeError", line, msg)
syntax_error(line, msg) == Diag("SyntaxError", line, msg)
Bail(msg) == [k |-> "Err", fam |-> "", line |-> 0, msg |-> msg]
Return(value) == [k |-> "Return", value |-> value]
Panic(msg) == [k |-> "Panic", msg |-> msg]
Fuel == [k |-> "Fuel"]
\* A parse that never returns (an endless loop or an endless recursion).
Diverge == [k |-> "Diverge"]

\* What a function of the interpreter (Done) or of the parser (Parsed)
\* leaves: the state after it and its result r; ok tells that r is Ok.
Done(st, r) == [st |-> st, r |-> r, ok |-> r.k = "Ok"]
Parsed(p, r) == [p |-> p, r |-> r, ok |-> r.k = "Ok"]

\* The `?` operator: an expression whose result a is not Ok returns a from
\* the enclosing function; otherwise the function goes on with a's value.
Try(a, K(_)) == IF a.ok THEN K(a) ELSE a

\* let a = ...; without `?`: the function goes on whatever a is.
With(a, K(_)) == K(a)

thrutiness(o) ==
    CASE o.k = "Null" -> FALSE
      [] o.k = "Boolean" -> o.b
      [] OTHER -> TRUE

\* impl PartialEq for Object
eq(a, b) ==
    CASE a.k = "Number" /\ b.k = "Number" -> f64_eq(a, b)
      [] a.k = "Str" /\ b.k = "Str" -> a.s = b.s
      [] a.k = "Boolean" /\ b.k = "Boolean" -> a.b = b.b
      [] a.k = "Null" /\ b.k = "Null" -> TRUE
      [] OTHER -> FALSE

\* The strings the model's programs use, in lexicographic order.
Strings == <<"", "a", "ab", "b">>
StrRank(s) == IF \E i \in 1..Len(Strings) : Strings[i] = s
              THEN CHOOSE i \in 1..Len(Strings) : Strings[i] = s
              ELSE 0

\* impl PartialOrd for Object: Some(ordering) or None
partial_cmp(a, b) ==
    LET cmp(x, y) == IF x < y THEN "Less" ELSE IF x = y THEN "Equal" ELSE "Greater"
    IN CASE a.k = "Str" /\ b.k = "Str" -> cmp(StrRank(a.s), StrRank(b.s))
         [] a.k = "Number" /\ b.k = "Number" -> f64_partial_cmp(a, b)
         [] OTHER -> "None"

add(a, b) ==
    CASE a.k = "Str" /\ b.k = "Str" -> Ok(Str(a.s \o b.s))
      [] a.k = "Number" /\ b.k = "Number" -> Ok(f64_add(a, b))
      [] (a.k = "Str" /\ b.k = "Number") \/ (a.k = "Number" /\ b.k = "Str") ->
            Bail("Expected both operands to be of the same type")
      [] OTHER -> Bail("Unsuported operands types for addition. Supported ones are 'string' and 'number'")

sub(a, b) ==
    IF a.k = "Number" /\ b.k = "Number" THEN Ok(f64_add(a, f64_neg(b)))
    ELSE Bail("Expected both operands to be numbers in subtraction operation")

mul(a, b) ==
    IF a.k = "Number" /\ b.k = "Number" THEN Ok(f64_mul(a, b))
    ELSE Bail("Expected both operands to be numbers in multiplication operation")

div(a, b) ==
    IF a.k = "Number" /\ b.k = "Number"
    THEN IF f64_eq(b, Number(0)) THEN Bail("Division by zero is not allowed")
         ELSE Ok(f64_div(a, b))
    ELSE Bail("Expected both operands to be numbers in division operation")

\* impl Display for Object
Display(o) ==
    CASE o.k = "Str" -> o.s
      [] o.k = "Boolean" -> IF o.b THEN "true" ELSE "false"
      [] o.k = "Number" -> IF is_finite(o) THEN ToString(o.n) ELSE o.fp
      [] o.k = "Null" -> "null"
      [] o.k = "Callable" ->
            IF o.c.kind = "Println" THEN "<std fn println>"
            ELSE "<user fn " \o o.c.declaration.ident.lexeme \o ">"

\* The mutant of arity for which every callable takes one argument.
arity_mut_one(c) == 1

arity(c) == IF c.kind = "Println" THEN 1 ELSE Len(c.declaration.params)

----------------------------------------------------------------------------
(* env.rs: environments.  An Rc<RefCell<Environment>> is an index into    *)
(* envs; enclosing = 0 is None.                                            *)

EmptyBindings == [n \in {} |-> Null]

\* The mutant of Environment::new that forgets the enclosing environment.
Environment_mut_orphan(enclosing) == [bindings |-> EmptyBindings, enclosing |-> 0]

Environment(enclosing) == [bindings |-> EmptyBindings, enclosing |-> enclosing]

\* The mutant of define that binds in the root environment.
define_mut_root(envs, e, key, value) ==
    [envs EXCEPT ![1].bindings = (key :> value) @@ @]

define(envs, e, key, value) ==
    [envs EXCEPT ![e].bindings = (key :> value) @@ @]

\* The mutant of get that looks in the receiver only.
get_mut_local(envs, e, key) ==
    IF key.lexeme \in DOMAIN envs[e].bindings
    THEN Ok(envs[e].bindings[key.lexeme])
    ELSE syntax_error(key.line, "Undefined variable '" \o key.lexeme \o "'")

RECURSIVE get(_, _, _)
get(envs, e, key) ==
    IF key.lexeme \in DOMAIN envs[e].bindings
    THEN Ok(envs[e].bindings[key.lexeme])
    ELSE IF envs[e].enclosing # 0
         THEN get(envs, envs[e].enclosing, key)
         ELSE syntax_error(key.line, "Undefined variable '" \o key.lexeme \o "'")

RECURSIVE assign_mut_create(_, _, _, _)
assign_mut_create(envs, e, key, value) ==
    IF key \in DOMAIN envs[e].bindings
    THEN [envs |-> define(envs, e, key, value), r |-> Ok(Unit)]
    ELSE IF envs[e].enclosing # 0
         THEN assign_mut_create(envs, envs[e].enclosing, key, value)
         ELSE [envs |-> define(envs, e, key, value), r |-> Ok(Unit)]

RECURSIVE assign(_, _, _, _)
assign(envs, e, key, value) ==
    IF key \in DOMAIN envs[e].bindings
    THEN [envs |-> define(envs, e, key, value), r |-> Ok(Unit)]
    ELSE IF envs[e].enclosing # 0
         THEN assign(envs, envs[e].enclosing, key, value)
         ELSE [envs |-> envs,
               r |-> Bail("Tried to assign to non-existent binding '" \o key \o "'")]

\* The environments on the chain from e to the root, nearest first.
RECURSIVE Chain(_, _)
Chain(envs, e) == IF e = 0 THEN <<>> ELSE <<e>> \o Chain(envs, envs[e].enclosing)

Bound(envs, e, name) == \E i \in 1..Len(Chain(envs, e)) : name \in DOMAIN envs[Chain(envs, e)[i]].bindings

----------------------------------------------------------------------------
(* interpreter.rs, runtime.rs: the evaluator.  st is the Interpreter       *)
(* (envs, global, current, out) with the event trace, the number of active *)
(* user calls and the remaining fuel.                                      *)

\* Every event also records the environments and the output at its time.
Emit(st, e) == [st EXCEPT !.trace = Append(@, e @@ [envs_at |-> st.envs, out_at |-> st.out])]

Fresh(st, enclosing) == [st EXCEPT !.envs = Append(@, Environment(enclosing))]

RECURSIVE eval_expression(_, _), eval_call(_, _), eval_args(_, _, _, _),
          eval_unary(_, _), eval_binary(_, _), eval_logical(_, _),
          eval_assignment(_, _), exec_statement(_, _),
          exec_block_statement(_, _, _), exec_decls(_, _, _),
          exec_while_statement(_, _), exec_if_statement(_, _),
          exec_return_statement(_, _), register_declaration(_, _),
          register_let_declaration(_, _), Function_call(_, _, _),
          bind_params(_, _, _, _, _)

eval_literal(st, literal) ==
    Done(st,
     Ok(CASE literal.lit.k = "Boolean" -> Boolean(literal.lit.b)
                [] literal.lit.k = "Number" -> literal.lit
                [] literal.lit.k = "Str" -> Str(literal.lit.s)
                [] literal.lit.k = "Null" -> Null))

eval_range(st, range) == Done(st, Panic("not yet implemented"))

eval_expression(st, expr) ==
    CASE expr.t = "Literal" -> eval_literal(st, expr)
      [] expr.t = "Var" -> Done(st, get(st.envs, st.current, expr.token))
      [] expr.t = "Call" -> eval_call(st, expr)
      [] expr.t = "Unary" -> eval_unary(st, expr)
      [] expr.t = "Binary" -> eval_binary(st, expr)
      [] expr.t = "Logical" -> eval_logical(st, expr)
      [] expr.t = "Range" -> eval_range(st, expr)
      [] expr.t = "Grouping" -> eval_expression(st, expr.expr)
      [] expr.t = "Assignment" -> eval_assignment(st, expr)

eval_assignment(st, assignment) ==
    Try(eval_expression(st, assignment.expr), LAMBDA value :
        LET line == assignment.ident.line
            s1 == value.st
            a == assign(s1.envs, s1.global, assignment.ident.lexeme, value.r.v)
            r == IF a.r.k = "Ok" THEN Ok(value.r.v) ELSE runtime_error(line, a.r.msg)
            s2 == [s1 EXCEPT !.envs = a.envs]
        IN Done(Emit(s2, [ev |-> "assign", name |-> assignment.ident.lexeme,
                             current |-> s1.current, value |-> value.r.v,
                             before |-> s1.envs, after |-> s2.envs, res |-> r]),
            r))

\* The mutant of eval_logical that evaluates the right operand in every case.
eval_logical_mut_eager(st, logical) ==
    Try(eval_expression(st, logical.left), LAMBDA left :
        With(eval_expression(left.st, logical.right), LAMBDA right :
             LET skip == IF logical.operator.ty = "Or" THEN thrutiness(left.r.v)
                         ELSE ~thrutiness(left.r.v)
                 r == IF skip /\ right.ok THEN left.r ELSE right.r
             IN Done(Emit(right.st, [ev |-> "logical", op |-> logical.operator.ty,
                                     left |-> left.r.v, right |-> right.r,
                                     mid |-> left.st.envs, midlen |-> Len(left.st.trace),
                                     after |-> right.st.envs, res |-> r]),
                     r)))

\* The event records what eval_logical did: the value of the left operand,
\* the result of the right one (None when it was not evaluated), the
\* environments and the length of the trace before the right operand.
eval_logical(st, logical) ==
    Try(eval_expression(st, logical.left), LAMBDA left :
        LET returns_left == IF logical.operator.ty = "Or" THEN thrutiness(left.r.v)
                            ELSE ~thrutiness(left.r.v)
        IN With(IF returns_left THEN left
                ELSE eval_expression(left.st, logical.right), LAMBDA a :
                Done(Emit(a.st, [ev |-> "logical", op |-> logical.operator.ty,
                                 left |-> left.r.v,
                                 right |-> IF returns_left THEN None ELSE a.r,
                                 mid |-> left.st.envs, midlen |-> Len(left.st.trace),
                                 after |-> a.st.envs, res |-> a.r]),
                     a.r)))

eval_binary(st, binary) ==
    Try(eval_expression(st, binary.left), LAMBDA left :
    Try(eval_expression(left.st, binary.right), LAMBDA right :
        LET line == binary.operator.line
            ty == binary.operator.ty
            l == left.r.v
            r == right.r.v
            lift(x) == IF x.k = "Ok" THEN x ELSE runtime_error(line, x.msg)
            ord(accept) ==
                IF partial_cmp(l, r) = "None"
                THEN runtime_error(line, "Ordering operators can only be used when both operands are 'string' or 'number'")
                ELSE Ok(Boolean(partial_cmp(l, r) \in accept))
        IN Done(right.st,
            CASE ty = "EqualEqual" -> Ok(Boolean(eq(l, r)))
                    [] ty = "BangEqual" -> Ok(Boolean(~eq(l, r)))
                    [] ty = "Minus" -> lift(sub(l, r))
                    [] ty = "Star" -> lift(mul(l, r))
                    [] ty = "Slash" -> lift(div(l, r))
                    [] ty = "Plus" -> lift(add(l, r))
                    [] ty = "Greater" -> ord({"Greater"})
                    [] ty = "GreaterEqual" -> ord({"Greater", "Equal"})
                    [] ty = "LessEqual" -> ord({"Less", "Equal"})
                    [] ty = "Less" -> ord({"Less"})
                    [] OTHER -> runtime_error(line, "Unexpected binary operator"))))

eval_unary(st, unary) ==
    Try(eval_expression(st, unary.expr), LAMBDA value :
        Done(value.st,
         CASE unary.operator.ty = "Bang" -> Ok(Boolean(~thrutiness(value.r.v)))
                 [] unary.operator.ty = "Minus" ->
                        IF value.r.v.k = "Number" THEN Ok(f64_neg(value.r.v))
                        ELSE runtime_error(unary.operator.line, "Expected number")
                 [] OTHER -> runtime_error(unary.operator.line,
                                           "Expected '-' or '!' in unary operations")))

\* for arg in &call.args { args.push(self.eval_expression(&arg)?); }
eval_args(st, exprs, i, args) ==
    IF i > Len(exprs) THEN Done(st, Ok(args))
    ELSE Try(eval_expression(st, exprs[i]), LAMBDA a :
             eval_args(a.st, exprs, i + 1, Append(args, a.r.v)))

\* impl Callable for Println
Println_call(st, args) ==
    IF Len(args) < 1 THEN Done(st, Panic("index out of bounds"))
    ELSE Done([st EXCEPT !.out = Append(@, Display(args[1]))], Ok(Null))

\* for idx in 0..params.len() { env.define(params[idx].lexeme, args[idx]) }
bind_params(st, env, params, args, idx) ==
    IF idx > Len(params) THEN Done(st, Ok(Unit))
    ELSE IF idx > Len(args) THEN Done(st, Panic("index out of bounds"))
    ELSE bind_params([st EXCEPT !.envs = define(@, env, params[idx].lexeme, args[idx])],
                     env, params, args, idx + 1)

\* The mutant of call_result that loses the returned value.
call_result_mut_null(r) ==
    CASE r.k = "Ok" -> Ok(Null)
      [] r.k = "Return" -> Ok(Null)
      [] OTHER -> r

\* The mutant of call_result that turns an error of the body into Null.
call_result_mut_swallow(r) ==
    CASE r.k = "Ok" -> Ok(Null)
      [] r.k = "Return" -> IF r.value = None THEN Ok(Null) ELSE Ok(r.value)
      [] r.k = "Err" -> Ok(Null)
      [] OTHER -> r

\* What Function::call makes of the result r of the body: Null after a body
\* that ended, the value of a Return signal (Null if it has none), and any
\* other error as it is.
call_result(r) ==
    CASE r.k = "Ok" -> Ok(Null)
      [] r.k = "Return" -> IF r.value = None THEN Ok(Null) ELSE Ok(r.value)
      [] OTHER -> r

\* impl Callable for Function
Function_call(st, f, args) ==
    IF st.fuel = 0 THEN Done(st, Fuel)
    ELSE Try(bind_params(Fresh(st, st.current), Len(st.envs) + 1,
                         f.declaration.params, args, 1), LAMBDA b :
         LET env == Len(st.envs) + 1
             s1 == Emit([b.st EXCEPT !.depth = @ + 1, !.fuel = @ - 1],
                        [ev |-> "call", fn |-> f.declaration.ident.lexeme, env |-> env,
                         enclosing |-> b.st.envs[env].enclosing, site |-> f.site,
                         caller |-> st.current, depth |-> st.depth + 1])
         IN With(IF f.declaration.body.t = "BlockStmt"
                 THEN exec_block_statement(s1, f.declaration.body, env)
                 ELSE Done(s1, Ok(Unit)), LAMBDA body :
                 Done(Emit([body.st EXCEPT !.depth = @ - 1],
                              [ev |-> "call_exit", depth |-> st.depth + 1,
                               body |-> body.r, res |-> call_result(body.r)]),
                  call_result(body.r))))

\* The event records the check made before the callee is invoked: the callee
\* value, the number of arguments, the paren token's line, and the
\* environments, the output and the length of the trace after the arguments
\* were evaluated.
eval_call(st, call) ==
    Try(eval_expression(st, call.callee), LAMBDA callee :
    Try(eval_args(callee.st, call.args, 1, <<>>), LAMBDA args :
        With(LET line == call.paren_token.line
                 c == callee.r.v.c
             IN IF callee.r.v.k = "Callable"
                THEN IF arity(c) # Len(args.r.v)
                     THEN Done(args.st,
                           runtime_error(line, "Expected " \o ToString(arity(c))
                                \o " argument(s), but " \o ToString(Len(args.r.v)) \o " were found"))
                     ELSE IF c.kind = "Println" THEN Println_call(args.st, args.r.v)
                          ELSE Function_call(args.st, c, args.r.v)
                ELSE Done(args.st, runtime_error(line, "Expected callable object")),
             LAMBDA a :
                Done(Emit(a.st, [ev |-> "eval_call", callee |-> callee.r.v,
                                 nargs |-> Len(args.r.v), line |-> call.paren_token.line,
                                 mid |-> args.st.envs, midlen |-> Len(args.st.trace),
                                 midout |-> args.st.out, after |-> a.st.envs,
                                 out |-> a.st.out, res |-> a.r]),
                     a.r))))

exec_expression_statement(st, expr_stmt) ==
    Try(eval_expression(st, expr_stmt.expr), LAMBDA a : Done(a.st, Ok(Unit)))

exec_return_statement(st, return_stmt) ==
    IF return_stmt.expr = None
    THEN Done(Emit(st, [ev |-> "return", depth |-> st.depth, value |-> None]),
          Return(None))
    ELSE Try(eval_expression(st, return_stmt.expr), LAMBDA a :
             Done(Emit(a.st, [ev |-> "return", depth |-> a.st.depth, value |-> a.r.v]),
              Return(a.r.v)))

\* while self.eval_expression(&condition)?.thrutiness() { self.exec_statement(&body)? }
exec_while_statement(st, while_stmt) ==
    Try(eval_expression(st, while_stmt.condition), LAMBDA c :
        IF ~thrutiness(c.r.v) THEN Done(c.st, Ok(Unit))
        ELSE IF c.st.fuel = 0 THEN Done(c.st, Fuel)
        ELSE Try(exec_statement([c.st EXCEPT !.fuel = @ - 1], while_stmt.body), LAMBDA b :
                 exec_while_statement(b.st, while_stmt)))

exec_if_statement(st, if_stmt) ==
    Try(eval_expression(st, if_stmt.condition), LAMBDA condition :
        IF thrutiness(condition.r.v)
        THEN exec_statement(condition.st, if_stmt.if_branch)
        ELSE IF if_stmt.else_branch # None
             THEN exec_statement(condition.st, if_stmt.else_branch)
             ELSE Done(condition.st, Ok(Unit)))

\* for decl in block_stmt.stmts.iter() { self.register_declaration(decl)? }
exec_decls(st, stmts, i) ==
    IF i > Len(stmts) THEN Done(st, Ok(Unit))
    ELSE Try(register_declaration(st, stmts[i]), LAMBDA a : exec_decls(a.st, stmts, i + 1))

\* self.current = previous is reached only when no declaration of the block
\* failed: the `?` in the loop returns before it.
exec_block_statement(st, block_stmt, new_env) ==
    With(exec_decls([st EXCEPT !.current = new_env], block_stmt.stmts, 1), LAMBDA a :
         LET previous == st.current
             s2 == IF a.r.k = "Ok" THEN [a.st EXCEPT !.current = previous] ELSE a.st
         IN Done(Emit(s2, [ev |-> "block", previous |-> previous, env |-> new_env,
                              after |-> s2.current, outcome |-> a.r.k,
                              res |-> a.r, stmts |-> block_stmt.stmts,
                              out_before |-> st.out]),
             a.r))

exec_statement(st, stmt) ==
    CASE stmt.t = "ExprStmt" -> exec_expression_statement(st, stmt)
      [] stmt.t = "BlockStmt" ->
            exec_block_statement(Fresh(st, st.current), stmt, Len(st.envs) + 1)
      [] stmt.t = "IfStmt" -> exec_if_statement(st, stmt)
      [] stmt.t = "WhileStmt" -> exec_while_statement(st, stmt)
      [] stmt.t = "ReturnStmt" -> exec_return_statement(st, stmt)

register_function_declaration(st, fn_decl) ==
    Done([st EXCEPT !.envs = define(@, st.current, fn_decl.ident.lexeme,
                                       Callable(Function(fn_decl, st.current)))],
     Ok(Unit))

\* Both arms of the match define the name in self.global.
register_let_declaration(st, let_decl) ==
    Try(IF let_decl.init = None THEN Done(st, Ok(Null))
        ELSE eval_expression(st, let_decl.init), LAMBDA init :
        LET s1 == init.st
            s2 == [s1 EXCEPT !.envs = define(@, s1.global, let_decl.ident.lexeme, init.r.v)]
            outer == s1.envs[s1.current].enclosing
        IN Done(Emit(s2, [ev |-> "let", name |-> let_decl.ident.lexeme,
                             current |-> s1.current, outer |-> outer,
                             outer_before |-> IF outer = 0 THEN None
                                              ELSE get(s1.envs, outer, let_decl.ident),
                             outer_after |-> IF outer = 0 THEN None
                                             ELSE get(s2.envs, outer, let_decl.ident)]),
            Ok(Unit)))

\* A declaration that ends with an error diagnostic is recorded as failed.
register_declaration(st, decl) ==
    LET s == Emit(st, [ev |-> "decl", depth |-> st.depth, t |-> decl.t])
    IN With(CASE decl.t = "StmtDecl" -> exec_statement(s, decl.stmt)
              [] decl.t = "LetDecl" -> register_let_declaration(s, decl)
              [] decl.t = "FnDecl" -> register_function_declaration(s, decl),
            LAMBDA a :
               IF a.r.k = "Err"
               THEN Done(Emit(a.st, [ev |-> "failed", depth |-> st.depth, res |-> a.r]), a.r)
               ELSE a)

----------------------------------------------------------------------------
(* parser.rs: the recursive-descent parser.  p is the Parser (tokens,      *)
(* current, errors) and the history variable eos_ok, which records that    *)
(* a rule took a token although the cursor had passed the last one.        *)
(* current counts the consumed tokens: the token under the cursor is       *)
(* tokens[current + 1].                                                    *)

NumberToken(lexeme, n, line) == [lexeme |-> lexeme, ty |-> "Number", line |-> line, n |-> n]

\* The tokens of a source line: T(lexeme, ty) is on line 1.
T(lexeme, ty) == Token(lexeme, ty, 1)

\* Parser::new
ParserNew(tokens) == [tokens |-> tokens, current |-> 0, errors |-> <<>>, eos_ok |-> FALSE]

finished(p) == p.current >= Len(p.tokens)

\* tokens.get(current), or the last token once the cursor has passed it.
\* (On an empty list this panics; parse never peeks then, its loop guard
\* finished() being true at once.)
peek(p) ==
    IF p.current < Len(p.tokens) THEN p.tokens[p.current + 1]
    ELSE p.tokens[Len(p.tokens)]

\* panic!("No previous token available") when current == 0
NoPrevious(p) == p.current = 0
peek_previous(p) == p.tokens[p.current]

next_token(p) ==
    IF finished(p) THEN [p |-> p, tok |-> peek(p)]
    ELSE [p |-> [p EXCEPT !.current = @ + 1], tok |-> p.tokens[p.current + 1]]

\* A rule that used the token next_token gave it at p.
Took(p) == [next_token(p).p EXCEPT !.eos_ok = @ \/ finished(p)]

expect(p, ty, msg, line) ==
    IF peek(p).ty = ty
    THEN Parsed(Took(p), Ok(next_token(p).tok))
    ELSE Parsed(p, syntax_error(line, msg))

DeclStart == {"Class", "Let", "Fn", "For", "While", "If", "Return"}

\* The mutant of synchronize that does not advance before it looks.
RECURSIVE synchronize_mut_noadvance(_)
synchronize_mut_noadvance(p) ==
    IF finished(p) THEN p
    ELSE IF p.current > 0 /\ peek_previous(p).ty = "Semicolon" THEN p
    ELSE IF peek(p).ty \in DeclStart THEN p
    ELSE synchronize_mut_noadvance(next_token(p).p)

\* while !self.finished() { ... } of synchronize
RECURSIVE sync_loop(_)
sync_loop(p) ==
    IF finished(p) THEN p
    ELSE IF peek_previous(p).ty = "Semicolon" THEN p
    ELSE IF peek(p).ty \in DeclStart THEN p
    ELSE sync_loop(next_token(p).p)

synchronize(p) == sync_loop(next_token(p).p)

RECURSIVE parse_declaration(_), parse_let_declaration(_), parse_statment(_),
          parse_for_statement(_), parse_while_statement(_), parse_if_statement(_),
          parse_block_statement(_), block_loop(_, _), parse_expression(_),
          parse_assignment(_), parse_range(_, _), parse_or(_), or_loop(_, _),
          parse_and(_, _, _), parse_equality(_, _, _), parse_comparison(_, _, _),
          parse_term(_, _, _), parse_factor(_, _, _), parse_unary(_), parse_call(_),
          call_loop(_, _), parse_primary(_), parse_fn_args(_, _, _), args_loop(_, _)

parse_declaration(p) ==
    IF peek(p).ty = "Let" THEN parse_let_declaration(p)
    ELSE Try(parse_statment(p), LAMBDA stmt : Parsed(stmt.p, Ok(StmtDecl(stmt.r.v))))

parse_let_declaration(p) ==
    LET let_token == next_token(p)
        line == let_token.tok.line
    IN Try(expect(let_token.p, "Identifier", "expected identifier after let declaration", line),
           LAMBDA ident :
       Try(IF peek(ident.p).ty = "Equal"
           THEN parse_expression(next_token(ident.p).p)
           ELSE Parsed(ident.p, Ok(None)), LAMBDA init :
       Try(expect(init.p, "Semicolon", "Expect ';' after variable declaration", line),
           LAMBDA semi :
           Parsed(semi.p, Ok(LetDecl(ident.r.v, init.r.v))))))

parse_statment(p) ==
    CASE peek(p).ty = "LeftBrace" -> parse_block_statement(p)
      [] peek(p).ty = "If" -> parse_if_statement(p)
      [] peek(p).ty = "While" -> parse_while_statement(p)
      [] peek(p).ty = "For" -> parse_for_statement(p)
      [] OTHER ->
            Try(parse_expression(p), LAMBDA expr :
                IF NoPrevious(expr.p)
                THEN Parsed(expr.p, Panic("No previous token available"))
                ELSE Try(expect(expr.p, "Semicolon", "Expected ';' after expression",
                                peek_previous(expr.p).line), LAMBDA semi :
                         Parsed(semi.p, Ok(ExprStmt(expr.r.v)))))

\* The desugaring of  for v in start..end body  into
\* { let v = start; while v < end { body; v = v + 1; } }
for_desugar(line, v, range, body) ==
    LET is_numbers == /\ range.left.t = "Literal" /\ range.left.lit.k = "Number"
                      /\ range.right.t = "Literal" /\ range.right.lit.k = "Number"
        start == range.left.lit.n
        end == range.right.lit.n
        var_decl == LetDecl(v, Literal(LitNumber(start)))
        condition == Binary(Var(v), Token("<", "Less", line), Literal(LitNumber(end)))
        increment_expr == Binary(Var(v), Token("+", "Plus", line), Literal(LitNumber(1)))
        iteration == ExprStmt(Assignment(v, increment_expr))
        while_body == BlockStmt(Append(body.stmts, StmtDecl(iteration)))
        while_stmt == StmtDecl(WhileStmt(condition, while_body))
    IN IF range.t # "Range"
       THEN syntax_error(line, "Expected range expression (a..b) in for loop declaration")
       ELSE IF ~is_numbers
            THEN syntax_error(line, "Expected range operands to evaluate to a number")
       ELSE Ok(BlockStmt(<<var_decl, while_stmt>>))

parse_for_statement(p) ==
    LET for_token == next_token(p)
        line == for_token.tok.line
    IN Try(expect(for_token.p, "Identifier", "Expected identifier after 'for' keyword", line),
           LAMBDA variable :
       Try(expect(variable.p, "In",
                  "Expected 'in' keyword after identifier in for loop declaration", line),
           LAMBDA in :
       Try(parse_range(in.p, None), LAMBDA range :
       Try(parse_block_statement(range.p), LAMBDA body :
           Parsed(body.p, for_desugar(line, variable.r.v, range.r.v, body.r.v))))))

parse_while_statement(p) ==
    Try(parse_expression(next_token(p).p), LAMBDA condition :
    Try(parse_block_statement(condition.p), LAMBDA body :
        Parsed(body.p, Ok(WhileStmt(condition.r.v, body.r.v)))))

parse_if_statement(p) ==
    Try(parse_expression(next_token(p).p), LAMBDA condition :
    Try(parse_block_statement(condition.p), LAMBDA if_branch :
    Try(IF peek(if_branch.p).ty = "Else"
        THEN parse_block_statement(next_token(if_branch.p).p)
        ELSE Parsed(if_branch.p, Ok(None)), LAMBDA else_branch :
        Parsed(else_branch.p,
         Ok(IfStmt(condition.r.v, if_branch.r.v, else_branch.r.v))))))

\* while current < tokens.len() && tokens[current] is not '}' { stmts.push(parse_declaration()?) }
block_loop(p, stmts) ==
    IF p.current < Len(p.tokens) /\ p.tokens[p.current + 1].ty # "RightBrace"
    THEN Try(parse_declaration(p), LAMBDA d : block_loop(d.p, Append(stmts, d.r.v)))
    ELSE Parsed(p, Ok(stmts))

parse_block_statement(p) ==
    IF NoPrevious(p) THEN Parsed(p, Panic("No previous token available"))
    ELSE Try(expect(p, "LeftBrace", "Expected '{' at begining of block",
                    peek_previous(p).line), LAMBDA left_brace_token :
         Try(block_loop(left_brace_token.p, <<>>), LAMBDA stmts :
             IF stmts.p.current >= Len(stmts.p.tokens)
             THEN Parsed(stmts.p,
                   runtime_error(left_brace_token.r.v.line, "Unclosed block"))
             ELSE Try(expect(stmts.p, "RightBrace", "Expected '}' at the end of scope",
                             left_brace_token.r.v.line), LAMBDA right :
                      Parsed(right.p, Ok(BlockStmt(stmts.r.v))))))

parse_expression(p) == parse_assignment(p)

parse_assignment(p) ==
    Try(parse_range(p, None), LAMBDA expr :
        IF peek(expr.p).ty # "Equal" THEN expr
        ELSE Try(parse_assignment(next_token(expr.p).p), LAMBDA value :
                 IF expr.r.v.t = "Var"
                 THEN Parsed(value.p, Ok(Assignment(expr.r.v.token, value.r.v)))
                 ELSE Parsed(value.p,
                       syntax_error(next_token(expr.p).tok.line,
                                          "Invalid assigment target"))))

\* left = parse_or()?; if let DotDot = peek().ty { next_token(); right = parse_or()?; Range(left, right) }
\* left is None while the first operand is parsed, and the first operand after.
parse_range(p, left) ==
    Try(parse_or(p), LAMBDA operand :
        IF left # None THEN Parsed(operand.p, Ok(Range(left, operand.r.v)))
        ELSE IF peek(operand.p).ty = "DotDot"
             THEN parse_range(next_token(operand.p).p, operand.r.v)
             ELSE operand)

\* while let Or = peek().ty { op = next_token(); right = parse_or()?; left = Logical(..) }
or_loop(p, left) ==
    IF peek(p).ty = "Or"
    THEN Try(parse_or(next_token(p).p), LAMBDA right :
             or_loop(right.p, Logical(left, next_token(p).tok, right.r.v)))
    ELSE Parsed(p, Ok(left))

parse_or(p) == Try(parse_and(p, None, None), LAMBDA left : or_loop(left.p, left.r.v))

\* The five rules below parse  operand (op operand)*  with one operand per
\* iteration of their loop: left is the expression built so far (None before
\* the first operand) and op the operator that followed it.

\* left = parse_equality()?; while let And = peek().ty { op = next_token(); right = parse_equality()?; left = Logical(left, op, right) }
parse_and(p, left, op) ==
    Try(parse_equality(p, None, None), LAMBDA operand :
        LET acc == IF left = None THEN operand.r.v ELSE Logical(left, op, operand.r.v)
        IN IF peek(operand.p).ty = "And"
           THEN parse_and(next_token(operand.p).p, acc, next_token(operand.p).tok)
           ELSE Parsed(operand.p, Ok(acc)))

\* left = parse_comparison()?; while let EqualEqual | BangEqual = peek().ty { op = next_token(); right = parse_comparison()?; left = Binary(left, op, right) }
parse_equality(p, left, op) ==
    Try(parse_comparison(p, None, None), LAMBDA operand :
        LET acc == IF left = None THEN operand.r.v ELSE Binary(left, op, operand.r.v)
        IN IF peek(operand.p).ty \in {"EqualEqual", "BangEqual"}
           THEN parse_equality(next_token(operand.p).p, acc, next_token(operand.p).tok)
           ELSE Parsed(operand.p, Ok(acc)))

\* left = parse_term()?; while let Greater | GreaterEqual | Less | LessEqual = peek().ty { op = next_token(); right = parse_term()?; left = Binary(left, op, right) }
parse_comparison(p, left, op) ==
    Try(parse_term(p, None, None), LAMBDA operand :
        LET acc == IF left = None THEN operand.r.v ELSE Binary(left, op, operand.r.v)
        IN IF peek(operand.p).ty \in {"Greater", "GreaterEqual", "Less", "LessEqual"}
           THEN parse_comparison(next_token(operand.p).p, acc, next_token(operand.p).tok)
           ELSE Parsed(operand.p, Ok(acc)))

\* left = parse_factor()?; while let Minus | Plus = peek().ty { op = next_token(); right = parse_factor()?; left = Binary(left, op, right) }
parse_term(p, left, op) ==
    Try(parse_factor(p, None, None), LAMBDA operand :
        LET acc == IF left = None THEN operand.r.v ELSE Binary(left, op, operand.r.v)
        IN IF peek(operand.p).ty \in {"Minus", "Plus"}
           THEN parse_term(next_token(operand.p).p, acc, next_token(operand.p).tok)
           ELSE Parsed(operand.p, Ok(acc)))

\* left = parse_unary()?; while let Star | Slash = peek().ty { op = next_token(); right = parse_unary()?; left = Binary(left, op, right) }
parse_factor(p, left, op) ==
    Try(parse_unary(p), LAMBDA operand :
        LET acc == IF left = None THEN operand.r.v ELSE Binary(left, op, operand.r.v)
        IN IF peek(operand.p).ty \in {"Star", "Slash"}
           THEN parse_factor(next_token(operand.p).p, acc, next_token(operand.p).tok)
           ELSE Parsed(operand.p, Ok(acc)))

parse_unary(p) ==
    IF peek(p).ty \in {"Minus", "Bang"}
    THEN Try(parse_primary(next_token(p).p), LAMBDA expr :
             Parsed(expr.p, Ok(Unary(next_token(p).tok, expr.r.v))))
    ELSE parse_call(p)

\* loop { if let LeftParen = peek().ty { callee = parse_fn_args(callee, next_token())? } else { break } }
call_loop(p, callee) ==
    IF peek(p).ty = "LeftParen"
    THEN Try(parse_fn_args(next_token(p).p, callee, next_token(p).tok), LAMBDA c :
             call_loop(c.p, c.r.v))
    ELSE Parsed(p, Ok(callee))

parse_call(p) == Try(parse_primary(p), LAMBDA callee : call_loop(callee.p, callee.r.v))

\* Once the cursor has passed the last token next_token no longer moves it,
\* so after a '(' that leaves the parser finished the recursive
\* parse_expression meets the same '(' in the same state again and again:
\* the recursion never returns, which is the result Diverge.
parse_primary(p) ==
    LET primary == next_token(p).tok
        took == Took(p)
    IN CASE primary.ty = "Number" -> Parsed(took, Ok(Literal(LitNumber(primary.n))))
         [] primary.ty = "String" -> Parsed(took, Ok(Literal(LitStr(primary.s))))
         [] primary.ty = "False" -> Parsed(took, Ok(Literal(LitBoolean(FALSE))))
         [] primary.ty = "True" -> Parsed(took, Ok(Literal(LitBoolean(TRUE))))
         [] primary.ty = "Null" -> Parsed(took, Ok(Literal(LitNull)))
         [] primary.ty = "Identifier" -> Parsed(took, Ok(Var(primary)))
         [] primary.ty = "LeftParen" ->
               IF finished(took) THEN Parsed([took EXCEPT !.eos_ok = TRUE], Diverge)
               ELSE Try(parse_expression(took), LAMBDA expr :
                    Try(expect(expr.p, "RightParen", "Expected ')' after expression",
                               primary.line), LAMBDA right :
                        Parsed(right.p, Ok(Grouping(expr.r.v)))))
         [] OTHER ->
               Parsed(next_token(p).p,
                syntax_error(primary.line,
                          "Expected expression. Found \"" \o primary.lexeme \o "\""))

\* while !matches!(peek().ty, RightParen) { args.push(parse_expression()?); skip a ',' }
\* An iteration that starts with the parser finished and parses its argument
\* leaves the cursor where it was, so the loop repeats it for ever: Diverge.
args_loop(p, args) ==
    IF peek(p).ty # "RightParen"
    THEN Try(parse_expression(p), LAMBDA arg :
             IF finished(p) THEN Parsed(arg.p, Diverge)
             ELSE args_loop(IF peek(arg.p).ty = "Comma" THEN next_token(arg.p).p ELSE arg.p,
                            Append(args, arg.r.v)))
    ELSE Parsed(p, Ok(args))

parse_fn_args(p, e, paren_token) ==
    Try(args_loop(p, <<>>), LAMBDA args :
        IF NoPrevious(args.p)
        THEN Parsed(args.p, Panic("No previous token available"))
        ELSE Try(expect(args.p, "RightParen", "Expected ')' after function arguments",
                        peek_previous(args.p).line), LAMBDA right :
                 Parsed(right.p, Ok(Call(e, paren_token, args.r.v)))))

----------------------------------------------------------------------------
(* lexer.rs: the lexer.  source is the sequence of the characters of the   *)
(* source string.  The Rust code measures the source in bytes              *)
(* (source.len(), the slices source[a..b]) and reads it by character       *)
(* index (chars().nth(i)); Width gives the bytes of a character in UTF-8.  *)
(* l is the Lexer (source, current, start, line, tokens, errors) with the  *)
(* history variable scans, one record for each iteration of tokenize.      *)

\* Characters of more than one byte: U+00E9 (a letter), U+00A7 (a symbol).
Wide == {"<U+00E9>", "<U+00A7>"}
Width(c) == IF c \in Wide THEN 2 ELSE 1

Digits == {"0", "1", "2", "3", "4", "5", "6", "7", "8", "9"}
Letters == {"a", "b", "c", "d", "e", "f", "g", "h", "i", "j", "k", "l", "m", "n", "o",
            "p", "q", "r", "s", "t", "u", "v", "w", "x", "y", "z", "<U+00E9>"}
is_digit(c) == c \in Digits
is_alphabetic(c) == c \in Letters
is_alphanumeric(c) == c \in Letters \cup Digits

\* '\0', and the None that chars().nth(i) gives past the last character.
NUL == "<NUL>"
NoChar == "<None>"

\* source.len(): the length in bytes
RECURSIVE ByteLen(_)
ByteLen(source) ==
    IF source = <<>> THEN 0 ELSE Width(Head(source)) + ByteLen(Tail(source))

\* source.chars().nth(i)
nth(source, i) == IF i < Len(source) THEN source[i + 1] ELSE NoChar

RECURSIVE Concat(_)
Concat(chars) == IF chars = <<>> THEN "" ELSE Head(chars) \o Concat(Tail(chars))

\* The character indices at the byte offset o (none when o is inside a
\* character or past the end).
CharsAt(source, o) == { k \in 0..Len(source) : ByteLen(SubSeq(source, 1, k)) = o }

\* &source[a..b] panics when a > b, when b is past the end and when an
\* offset is inside a character.
CanSlice(source, a, b) == a <= b /\ CharsAt(source, a) # {} /\ CharsAt(source, b) # {}

\* &source[a..b]: the characters between the byte offsets a and b
Slice(source, a, b) ==
    SubSeq(source, (CHOOSE k \in CharsAt(source, a) : TRUE) + 1,
                   CHOOSE k \in CharsAt(source, b) : TRUE)

slice_panic == Panic("byte index is out of bounds or not a char boundary")

KEYWORDS ==
    ("let" :> "Let") @@ ("fn" :> "Fn") @@ ("while" :> "While") @@ ("for" :> "For") @@
    ("in" :> "In") @@ ("and" :> "And") @@ ("or" :> "Or") @@ ("if" :> "If") @@
    ("else" :> "Else") @@ ("null" :> "Null") @@ ("return" :> "Return") @@
    ("true" :> "True") @@ ("false" :> "False") @@ ("this" :> "This") @@
    ("super" :> "Super") @@ ("class" :> "Class")

\* Lexer::new
LexerNew(source) ==
    [source |-> source, current |-> 0, start |-> 0, line |-> 1, tokens |-> <<>>,
     errors |-> <<>>, scans |-> <<>>]

\* What a function of the lexer leaves: the Lexer after it and its result.
Lexed(l, r) == [l |-> l, r |-> r, ok |-> r.k = "Ok"]

Lexer_finished(l) == l.current >= ByteLen(l.source)

Lexer_peek(l) == IF Lexer_finished(l) THEN NUL ELSE nth(l.source, l.current)

peek1(l) ==
    IF l.current + 1 = ByteLen(l.source) THEN NUL ELSE nth(l.source, l.current + 1)

\* The character is NoChar when there is none (unwrap panics).
next_char(l) == [l |-> [l EXCEPT !.current = @ + 1], c |-> nth(l.source, l.current)]

unwrap_none == Panic("called Option::unwrap() on a None value")

\* ty is the token kind with its payload, as a record.
add_token(l, ty) ==
    IF ~CanSlice(l.source, l.start, l.current) THEN Lexed(l, slice_panic)
    ELSE Lexed([l EXCEPT !.tokens =
                    Append(@, ty @@ [lexeme |-> Concat(Slice(l.source, l.start, l.current)),
                                     line |-> l.line])],
               Ok(Unit))

\* The token kinds: a kind is the record of its name and payload.
Kind(ty) == [ty |-> ty]

complement(l, c) ==
    IF Lexer_peek(l) = c THEN [l |-> [l EXCEPT !.current = @ + 1], b |-> TRUE]
    ELSE [l |-> l, b |-> FALSE]

\* if self.complement(c) { self.add_token(both) } else { self.add_token(single) }
two_chars(l, c, both, single) ==
    IF Lexer_peek(l) = NoChar THEN Lexed(l, unwrap_none)
    ELSE IF complement(l, c).b THEN add_token(complement(l, c).l, Kind(both))
    ELSE add_token(l, Kind(single))

\* while self.peek().is_alphanumeric() || self.peek() == '_' { self.next_char(); }
RECURSIVE identifier_loop(_)
identifier_loop(l) ==
    IF Lexer_peek(l) = NoChar THEN Lexed(l, unwrap_none)
    ELSE IF is_alphanumeric(Lexer_peek(l)) \/ Lexer_peek(l) = "_"
         THEN identifier_loop(next_char(l).l)
         ELSE Lexed(l, Ok(Unit))

add_identifier_token(l) ==
    Try(identifier_loop(l), LAMBDA a :
        IF ~CanSlice(a.l.source, a.l.start, a.l.current) THEN Lexed(a.l, slice_panic)
        ELSE LET something == Concat(Slice(a.l.source, a.l.start, a.l.current))
             IN IF something \in DOMAIN KEYWORDS
                THEN add_token(a.l, Kind(KEYWORDS[something]))
                ELSE add_token(a.l, Kind("Identifier")))

\* while self.peek() != '"' && !self.finished() { self.next_char(); }
RECURSIVE string_loop(_)
string_loop(l) ==
    IF Lexer_peek(l) = NoChar THEN Lexed(l, unwrap_none)
    ELSE IF Lexer_peek(l) # "\"" /\ ~Lexer_finished(l)
         THEN string_loop(next_char(l).l)
         ELSE Lexed(l, Ok(Unit))

add_string_token(l) ==
    Try(string_loop(l), LAMBDA a :
        IF Lexer_finished(a.l) THEN Lexed(a.l, syntax_error(a.l.line, "Unterminated string"))
        ELSE IF next_char(a.l).c = NoChar THEN Lexed(a.l, unwrap_none)
        ELSE LET l1 == next_char(a.l).l
             IN IF ~CanSlice(l1.source, l1.start + 1, l1.current - 1)
                THEN Lexed(l1, slice_panic)
                ELSE add_token(l1, [ty |-> "String",
                                    s |-> Concat(Slice(l1.source, l1.start + 1,
                                                       l1.current - 1))]))

\* while self.peek().is_digit(10) { self.next_char(); }
RECURSIVE digits_loop(_)
digits_loop(l) ==
    IF Lexer_peek(l) = NoChar THEN Lexed(l, unwrap_none)
    ELSE IF is_digit(Lexer_peek(l)) THEN digits_loop(next_char(l).l)
    ELSE Lexed(l, Ok(Unit))

DigitValue(c) ==
    CASE c = "0" -> 0 [] c = "1" -> 1 [] c = "2" -> 2 [] c = "3" -> 3 [] c = "4" -> 4
      [] c = "5" -> 5 [] c = "6" -> 6 [] c = "7" -> 7 [] c = "8" -> 8 [] c = "9" -> 9

\* The number written by the digits of chars, the '.' left out.
RECURSIVE DigitsValue(_, _)
DigitsValue(chars, acc) ==
    IF chars = <<>> THEN acc
    ELSE IF Head(chars) = "." THEN DigitsValue(Tail(chars), acc)
    ELSE DigitsValue(Tail(chars), 10 * acc + DigitValue(Head(chars)))

\* num / 10^scale without the zeros at the end of the fraction
RECURSIVE Reduced(_, _)
Reduced(num, scale) ==
    IF scale > 0 /\ num % 10 = 0 THEN Reduced(num \div 10, scale - 1)
    ELSE IF scale = 0 THEN num
    ELSE [num |-> num, scale |-> scale]

\* str::parse::<f64> is Ok for digits with at most one '.' among them and
\* at least one digit (the signs, the exponents, inf and nan need characters
\* that no source here has).
is_f64(chars) ==
    /\ \A i \in 1..Len(chars) : is_digit(chars[i]) \/ chars[i] = "."
    /\ \E i \in 1..Len(chars) : is_digit(chars[i])
    /\ Cardinality({ i \in 1..Len(chars) : chars[i] = "." }) <= 1

\* The f64 of such a string: the integer when the number is one, otherwise
\* num / 10^scale.
parse_f64(chars) ==
    LET dot == { i \in 1..Len(chars) : chars[i] = "." }
        scale == IF dot = {} THEN 0 ELSE Len(chars) - (CHOOSE i \in dot : TRUE)
    IN Reduced(DigitsValue(chars, 0), scale)

add_number_token(l) ==
    Try(digits_loop(l), LAMBDA whole :
        Try(IF Lexer_peek(whole.l) = "."
            THEN IF peek1(whole.l) = NoChar THEN Lexed(whole.l, unwrap_none)
                 ELSE IF is_digit(peek1(whole.l))
                      THEN digits_loop(next_char(whole.l).l)
                      ELSE whole
            ELSE whole, LAMBDA a :
            IF ~CanSlice(a.l.source, a.l.start, a.l.current) THEN Lexed(a.l, slice_panic)
            ELSE IF ~is_f64(Slice(a.l.source, a.l.start, a.l.current))
            THEN Lexed(a.l, Panic("called Result::unwrap() on an Err value"))
            ELSE add_token(a.l, [ty |-> "Number",
                                 n |-> parse_f64(Slice(a.l.source, a.l.start,
                                                       a.l.current))])))

\* The characters that are a token by themselves, with their kinds.
SingleChar ==
    ( "(" :> "LeftParen" ) @@ ( ")" :> "RightParen" ) @@ ( "{" :> "LeftBrace" ) @@
    ( "}" :> "RightBrace" ) @@ ( "," :> "Comma" ) @@ ( "-" :> "Minus" ) @@
    ( "+" :> "Plus" ) @@ ( ";" :> "Semicolon" ) @@ ( "*" :> "Star" )

scan_token(l) ==
    LET char == next_char(l).c
        l1 == next_char(l).l
    IN IF char = NoChar THEN Lexed(l, unwrap_none)
       ELSE IF char \in DOMAIN SingleChar THEN add_token(l1, Kind(SingleChar[char]))
       ELSE IF char = "!" THEN two_chars(l1, "=", "BangEqual", "Bang")
       ELSE IF char = "=" THEN two_chars(l1, "=", "EqualEqual", "Equal")
       ELSE IF char = ">" THEN two_chars(l1, "=", "GreaterEqual", "Greater")
       ELSE IF char = "<" THEN two_chars(l1, "=", "LessEqual", "Less")
       ELSE IF char = "." THEN two_chars(l1, ".", "DotDot", "Dot")
       ELSE IF char = "\"" THEN add_string_token(l1)
       ELSE IF is_digit(char) THEN add_number_token(l1)
       ELSE IF is_alphabetic(char) \/ char = "_" THEN add_identifier_token(l1)
       ELSE IF char \in {" ", "\r", "\t"} THEN Lexed(l1, Ok(Unit))
       ELSE IF char = "\n" THEN Lexed([l1 EXCEPT !.line = @ + 1], Ok(Unit))
       ELSE Lexed(l1, syntax_error(l1.line, "Unexpected Token '" \o char \o "'"))

\* Lexer::reset
reset(l) == [l EXCEPT !.current = 0, !.start = 0, !.line = 1, !.tokens = <<>>]

\* One iteration of the loop of tokenize:
\* self.start = self.current; if let Err(e) = self.scan_token() { errors.push_str(e) }
scan_step(l) ==
    LET a == scan_token([l EXCEPT !.start = l.current])
        l2 == IF a.r.k = "Err" THEN [a.l EXCEPT !.errors = Append(@, a.r)] ELSE a.l
    IN Lexed([l2 EXCEPT !.scans = Append(@, [pos |-> l.current, char |-> nth(l.source, l.current),
                                              line |-> l.line, r |-> a.r, to |-> a.l.current,
                                              added |-> SubSeq(a.l.tokens, Len(l.tokens) + 1,
                                                               Len(a.l.tokens))])],
             a.r)

----------------------------------------------------------------------------
(* The programs given to the interpreter.  interpret() takes any            *)
(* Vec<Declaration>; the declarations are drawn from Program.               *)

Id(name) == Token(name, "Identifier", 1)
Paren == Token("(", "LeftParen", 1)
Ret == Token("return", "Return", 1)
Num(n) == Literal(LitNumber(n))
V(name) == Var(Id(name))
S(expr) == StmtDecl(ExprStmt(expr))
CallOf(name, args) == Call(V(name), Paren, args)
PrintOf(expr) == S(Call(V("println"), Paren, <<expr>>))
Set(name, expr) == S(Assignment(Id(name), expr))
ReturnOf(expr) == StmtDecl(ReturnStmt(Ret, expr))
Block(stmts) == StmtDecl(BlockStmt(stmts))
OrToken == Token("or", "Or", 1)
AndToken == Token("and", "And", 1)
Paren2 == Token("(", "LeftParen", 2)
MinusToken == Token("-", "Minus", 1)

\* What parse_for_statement builds for  for x in 0..2 { println(x); }
ForLoop ==
    for_desugar(1, Id("x"), Range(Num(0), Num(2)), BlockStmt(<<PrintOf(V("x"))>>)).v

\* let r = 1 .. 2 ;
RangeTokens ==
    << T("let", "Let"), T("r", "Identifier"), T("=", "Equal"), NumberToken("1", 1, 1),
       T("..", "DotDot"), NumberToken("2", 2, 1), T(";", "Semicolon") >>

\* The declaration that the parser builds for it: let r = Range(1, 2)
RangeDecl == parse_declaration(ParserNew(RangeTokens)).r.v

Program ==
    { LetDecl(Id("x"), Num(1)),                           \* let x = 1;
      Set("x", Num(2)),                                   \* x = 2;
      Set("a", Num(2)),                                   \* a = 2;
      Block(<<LetDecl(Id("x"), Num(3))>>),                \* { let x = 3; }
      Block(<<LetDecl(Id("a"), None)>>),                  \* { let a; }
      Block(<<S(V("a"))>>),                               \* { a; }
      \* fn f(a) { return a; }
      FnDecl(Id("f"), <<Id("a")>>, BlockStmt(<<ReturnOf(V("a"))>>)),
      \* fn g() { return a; }
      FnDecl(Id("g"), <<>>, BlockStmt(<<ReturnOf(V("a"))>>)),
      \* fn h(a) { return g(); }
      FnDecl(Id("h"), <<Id("a")>>, BlockStmt(<<ReturnOf(CallOf("g", <<>>))>>)),
      \* fn k(a) { a = 2; return a; }
      FnDecl(Id("k"), <<Id("a")>>, BlockStmt(<<Set("a", Num(2)), ReturnOf(V("a"))>>)),
      \* fn r(a) { while a { if a { { return a; } } x = 9; } x = 8; }
      FnDecl(Id("r"), <<Id("a")>>,
             BlockStmt(<<StmtDecl(WhileStmt(V("a"),
                            BlockStmt(<<StmtDecl(IfStmt(V("a"),
                                            BlockStmt(<<Block(<<ReturnOf(V("a"))>>)>>), None)),
                                        Set("x", Num(9))>>))),
                         Set("x", Num(8))>>)),
      \* fn n() { x = 5; }      fn w() { return; }
      FnDecl(Id("n"), <<>>, BlockStmt(<<Set("x", Num(5))>>)),
      FnDecl(Id("w"), <<>>, BlockStmt(<<ReturnOf(None)>>)),
      PrintOf(CallOf("f", <<Num(1)>>)),                   \* println(f(1));
      PrintOf(CallOf("h", <<Num(1)>>)),                   \* println(h(1));
      PrintOf(CallOf("k", <<Num(1)>>)),                   \* println(k(1));
      PrintOf(CallOf("r", <<Num(1)>>)),                   \* println(r(1));
      PrintOf(CallOf("n", <<>>)),                         \* println(n());
      PrintOf(CallOf("w", <<>>)),                         \* println(w());
      PrintOf(V("a")),                                    \* println(a);
      ReturnOf(Num(1)),                                   \* return 1;
      \* println(1 or (x = 5));      println(null or (x = 5));
      PrintOf(Logical(Num(1), OrToken, Assignment(Id("x"), Num(5)))),
      PrintOf(Logical(Literal(LitNull), OrToken, Assignment(Id("x"), Num(5)))),
      \* println(null and (x = 5));  println(1 and (x = 5));
      PrintOf(Logical(Literal(LitNull), AndToken, Assignment(Id("x"), Num(5)))),
      PrintOf(Logical(Num(1), AndToken, Assignment(Id("x"), Num(5)))),
      \* calls whose `(` is on line 2:  x(1);  f(1, 2);  println();
      S(Call(V("x"), Paren2, <<Num(1)>>)),
      S(Call(V("f"), Paren2, <<Num(1), Num(2)>>)),
      S(Call(V("println"), Paren2, <<>>)),
      \* fn e() { -null; x = 7; return 1; }     println(e());
      FnDecl(Id("e"), <<>>, BlockStmt(<<S(Unary(MinusToken, Literal(LitNull))),
                                        Set("x", Num(7)), ReturnOf(Num(1))>>)),
      PrintOf(CallOf("e", <<>>)),
      \* for x in 0..2 { println(x); }
      StmtDecl(ForLoop),
      \* fn q(x) { for x in 0..2 { println(x); } }      q(5);
      FnDecl(Id("q"), <<Id("x")>>, BlockStmt(<<StmtDecl(ForLoop)>>)),
      S(CallOf("q", <<Num(5)>>)),
      RangeDecl }

----------------------------------------------------------------------------
(* The interpreter as a state machine: one action per top-level            *)
(* declaration that interpret() runs.                                      *)

\* Interpreter::new
InterpreterNew ==
    [envs |-> <<[bindings |-> ("println" :> Callable(Println)), enclosing |-> 0]>>,
     global |-> 1, current |-> 1, out |-> <<>>]

ParserIdle == [tokens |-> <<>>, current |-> 0, errors |-> <<>>]

LexerIdle == LexerNew(<<>>)

Init ==
    /\ interp = InterpreterNew
    /\ trace = <<>>
    /\ result = Ok(Unit)
    /\ steps = 0
    /\ parser = ParserIdle
    /\ declarations = <<>>
    /\ pstatus = "idle"
    /\ lastsync = None
    /\ lexer = LexerIdle
    /\ lstatus = "idle"
    /\ lresult = None

\* One iteration of  for stmt in ast.iter() { self.register_declaration(stmt)? }
Interpret(decl) ==
    LET st == [envs |-> interp.envs, global |-> interp.global, current |-> interp.current,
               out |-> interp.out, trace |-> <<>>, depth |-> 0, fuel |-> MaxFuel]
        a == register_declaration(st, decl)
    IN /\ result.k = "Ok"
       /\ steps < MaxSteps
       /\ a.r.k # "Fuel"
       /\ interp' = [envs |-> a.st.envs, global |-> a.st.global,
                     current |-> a.st.current, out |-> a.st.out]
       /\ trace' = a.st.trace
       /\ result' = a.r
       /\ steps' = steps + 1
       /\ UNCHANGED <<pvars, lvars>>

Next == \E decl \in Program : Interpret(decl)

Spec == Init /\ [][Next]_vars

----------------------------------------------------------------------------
(* The parser as a state machine: one action per iteration of the loop of  *)
(* parse(), one for its end.                                                *)

Alphabet ==
    { Token("let", "Let", 1), Token("x", "Identifier", 1), Token(";", "Semicolon", 1),
      Token("(", "LeftParen", 1), Token(")", "RightParen", 1), NumberToken("1", 1, 1) }

\* fn f ( x ) { return x ; }
FnTokens ==
    << T("fn", "Fn"), T("f", "Identifier"), T("(", "LeftParen"), T("x", "Identifier"),
       T(")", "RightParen"), T("{", "LeftBrace"), T("return", "Return"),
       T("x", "Identifier"), T(";", "Semicolon"), T("}", "RightBrace") >>

\* return ;
ReturnTokens == << T("return", "Return"), T(";", "Semicolon") >>

\* fn mk(x) { fn inner() { return x; } return inner; } let f = mk(42); println(f());
ClosureTokens ==
    << T("fn", "Fn"), T("mk", "Identifier"), T("(", "LeftParen"), T("x", "Identifier"),
       T(")", "RightParen"), T("{", "LeftBrace"),
       T("fn", "Fn"), T("inner", "Identifier"), T("(", "LeftParen"), T(")", "RightParen"),
       T("{", "LeftBrace"), T("return", "Return"), T("x", "Identifier"),
       T(";", "Semicolon"), T("}", "RightBrace"),
       T("return", "Return"), T("inner", "Identifier"), T(";", "Semicolon"),
       T("}", "RightBrace"),
       T("let", "Let"), T("f", "Identifier"), T("=", "Equal"), T("mk", "Identifier"),
       T("(", "LeftParen"), NumberToken("42", 42, 1), T(")", "RightParen"),
       T(";", "Semicolon"),
       T("println", "Identifier"), T("(", "LeftParen"), T("f", "Identifier"),
       T("(", "LeftParen"), T(")", "RightParen"), T(")", "RightParen"),
       T(";", "Semicolon") >>

\* if x y ;
IfTokens ==
    << T("if", "If"), T("x", "Identifier"), T("y", "Identifier"), T(";", "Semicolon") >>

\* while x y ;
WhileTokens ==
    << T("while", "While"), T("x", "Identifier"), T("y", "Identifier"), T(";", "Semicolon") >>

\* if x { } else if y { }
ElseIfTokens ==
    << T("if", "If"), T("x", "Identifier"), T("{", "LeftBrace"), T("}", "RightBrace"),
       T("else", "Else"), T("if", "If"), T("y", "Identifier"), T("{", "LeftBrace"),
       T("}", "RightBrace") >>

\* if x { } else { }      while x { }
IfBlockTokens ==
    << T("if", "If"), T("x", "Identifier"), T("{", "LeftBrace"), T("}", "RightBrace"),
       T("else", "Else"), T("{", "LeftBrace"), T("}", "RightBrace") >>
WhileBlockTokens ==
    << T("while", "While"), T("x", "Identifier"), T("{", "LeftBrace"), T("}", "RightBrace") >>

\* Inputs of the specification's scenarios that the alphabet does not cover.
Scenarios ==
    { FnTokens, ReturnTokens, ClosureTokens,
      IfTokens, WhileTokens, ElseIfTokens, IfBlockTokens, WhileBlockTokens, \* let x = 1 let y = 2 ;
      << Token("let", "Let", 1), Token("x", "Identifier", 1), Token("=", "Equal", 1),
         NumberToken("1", 1, 1), Token("let", "Let", 1), Token("y", "Identifier", 1),
         Token("=", "Equal", 1), NumberToken("2", 2, 1), Token(";", "Semicolon", 1) >>,
      \* x = 1 ; { let x ; }
      << Token("x", "Identifier", 1), Token("=", "Equal", 1), NumberToken("1", 1, 1),
         Token(";", "Semicolon", 1), Token("{", "LeftBrace", 2), Token("let", "Let", 2),
         Token("x", "Identifier", 2), Token(";", "Semicolon", 2), Token("}", "RightBrace", 2) >>,
      \* { x ; }
      << Token("{", "LeftBrace", 1), Token("x", "Identifier", 1), Token(";", "Semicolon", 1),
         Token("}", "RightBrace", 1) >> }

CountOf(tokens, ty) == Cardinality({ i \in DOMAIN tokens : tokens[i].ty = ty })

\* Every list of at most MaxTokens tokens with at most MaxParens '(' in it.
TokenLists ==
    { tokens \in UNION { [1..n -> Alphabet] : n \in 0..MaxTokens } :
        CountOf(tokens, "LeftParen") <= MaxParens } \cup Scenarios

InitParser ==
    /\ parser \in { ParserNew(tokens) : tokens \in TokenLists }
    /\ declarations = <<>>
    /\ pstatus = "parsing"
    /\ lastsync = None
    /\ interp = InterpreterNew
    /\ trace = <<>>
    /\ result = Ok(Unit)
    /\ steps = 0
    /\ lexer = LexerIdle
    /\ lstatus = "idle"
    /\ lresult = None

\* One iteration of  while !self.finished() { match self.parse_declaration() { .. } }
ParseStep ==
    LET a == parse_declaration(parser)
        failed == [a.p EXCEPT !.errors = Append(@, a.r)]
        synced == synchronize(failed)
    IN /\ pstatus = "parsing"
       /\ ~finished(parser)
       /\ CASE a.r.k = "Ok" ->
                 /\ declarations' = Append(declarations, a.r.v)
                 /\ parser' = a.p
                 /\ UNCHANGED <<pstatus, lastsync>>
            [] a.r.k = "Err" ->
                 /\ parser' = synced
                 /\ lastsync' = [from |-> a.p.current, to |-> synced.current, err |-> a.r]
                 /\ UNCHANGED <<pstatus, declarations>>
            [] a.r.k = "Panic" ->
                 /\ pstatus' = "panic"
                 /\ parser' = a.p
                 /\ UNCHANGED <<declarations, lastsync>>
            [] a.r.k = "Diverge" ->
                 /\ pstatus' = "diverged"
                 /\ parser' = a.p
                 /\ UNCHANGED <<declarations, lastsync>>
       /\ UNCHANGED <<ivars, lvars>>

\* The end of parse(): Ok(declarations) if errors is empty, else the diagnostics.
ParseEnd ==
    /\ pstatus = "parsing"
    /\ finished(parser)
    /\ pstatus' = "done"
    /\ UNCHANGED <<parser, declarations, lastsync>>
    /\ UNCHANGED <<ivars, lvars>>

NextParser == ParseStep \/ ParseEnd

SpecParser == InitParser /\ [][NextParser]_vars

----------------------------------------------------------------------------
(* The operations of Environment on their own: a heap of environments,     *)
(* held in interp.envs, on which new, define and get are called with       *)
(* every receiver, name and value.  trace holds the last operation.        *)

Names == {"x", "y"}
Values == {Number(1), Number(2)}

\* Environment::new(Some(parent))
EnvNew(parent) ==
    /\ Len(interp.envs) < MaxEnvs
    /\ interp' = [interp EXCEPT !.envs = Append(@, Environment(parent))]
    /\ trace' = <<[ev |-> "new", env |-> Len(interp.envs) + 1, enclosing |-> parent]>>
    /\ result' = Ok(Unit)
    /\ UNCHANGED <<steps, pvars, lvars>>

\* Environment::define
EnvDefine(e, key, value) ==
    /\ interp' = [interp EXCEPT !.envs = define(@, e, key, value)]
    /\ trace' = <<[ev |-> "define", env |-> e, key |-> key, value |-> value,
                   before |-> interp.envs, after |-> define(interp.envs, e, key, value)]>>
    /\ result' = Ok(Unit)
    /\ UNCHANGED <<steps, pvars, lvars>>

\* Environment::get, for an identifier token on line 2
EnvGet(e, key) ==
    /\ result' = get(interp.envs, e, Token(key, "Identifier", 2))
    /\ trace' = <<[ev |-> "get", env |-> e, key |-> Token(key, "Identifier", 2),
                   before |-> interp.envs, after |-> interp.envs,
                   res |-> get(interp.envs, e, Token(key, "Identifier", 2))]>>
    /\ UNCHANGED <<interp, steps, pvars, lvars>>

\* A new environment encloses the newest one, as nested blocks do.
NextEnv ==
    \/ EnvNew(Len(interp.envs))
    \/ \E e \in 1..Len(interp.envs), key \in Names : EnvGet(e, key)
    \/ \E e \in 1..Len(interp.envs), key \in Names, value \in Values : EnvDefine(e, key, value)

SpecEnv == Init /\ [][NextEnv]_vars

----------------------------------------------------------------------------
(* The lexer as a state machine: tokenize() on every source of Sources,    *)
(* one action for its reset, one per iteration of its loop, one for its    *)
(* end.                                                                    *)

\* The characters the sources are written with: a digit, the dot, the
\* slash, a character the lexer has no rule for, the newline, the quote, a
\* letter and a symbol of two bytes.
Characters == {"1", ".", "/", "@", "\n", "\"", "a", "<U+00A7>"}

\* The characters scan_token has a rule of their own for, and '/'
Punctuation == {"(", ")", "{", "}", ",", ";", "-", "+", "*", "/"}

SourceScenarios ==
    { <<"1", " ", "/", " ", "0">>, <<"1", ".", ".", "5">>, <<"1", ".", "5", "0">>,
      <<"l", "e", "t">>, <<"!", "=">>, <<"<", "=", ">">>, <<"=", "=", "_">>,
      <<"<U+00E9>", "1">>, <<"1", "\t", "\r">> }

Sources ==
    UNION { [1..n -> Characters] : n \in 0..MaxSource }
    \cup { <<c>> : c \in Punctuation } \cup SourceScenarios

InitLexer ==
    /\ lexer \in { LexerNew(source) : source \in Sources }
    /\ lstatus = "new"
    /\ lresult = None
    /\ interp = InterpreterNew
    /\ trace = <<>>
    /\ result = Ok(Unit)
    /\ steps = 0
    /\ parser = ParserIdle
    /\ declarations = <<>>
    /\ pstatus = "idle"
    /\ lastsync = None

\* self.reset() at the head of tokenize
TokenizeReset ==
    /\ lstatus = "new"
    /\ lexer' = reset(lexer)
    /\ lstatus' = "scanning"
    /\ UNCHANGED <<lresult, ivars, pvars>>

\* One iteration of  while !self.finished() { .. }
ScanStep ==
    LET a == scan_step(lexer)
    IN /\ lstatus = "scanning"
       /\ ~Lexer_finished(lexer)
       /\ lexer' = a.l
       /\ CASE a.r.k = "Panic" -> /\ lstatus' = "panic"
                                  /\ lresult' = a.r
            [] OTHER -> UNCHANGED <<lstatus, lresult>>
       /\ UNCHANGED <<ivars, pvars>>

\* The end of tokenize: the tokens, or every diagnostic in one error
TokenizeEnd ==
    /\ lstatus = "scanning"
    /\ Lexer_finished(lexer)
    /\ lstatus' = "done"
    /\ lresult' = IF lexer.errors = <<>> THEN Ok(lexer.tokens)
                  ELSE [k |-> "Err", errors |-> lexer.errors]
    /\ UNCHANGED <<lexer, ivars, pvars>>

NextLexer == TokenizeReset \/ ScanStep \/ TokenizeEnd

SpecLexer == InitLexer /\ [][NextLexer]_vars

(* Equality on its own: the global environment binds a and b to any two   *)
(* values, and a == b and a != b are evaluated.  trace holds the           *)
(* comparison.                                                             *)

\* Values of every kind: null, the booleans, finite numbers, the infinity
\* and NaN (a digit run beyond f64::MAX, and that number minus itself),
\* strings, the builtin and a user function.
Objects ==
    { Null, Boolean(TRUE), Boolean(FALSE), Number(0), Number(1), Infinity, NaN,
      Str(""), Str("a"), Callable(Println),
      Callable(Function(FnDecl(Id("f"), <<>>, BlockStmt(<<>>)), 1)) }

InitEq ==
    /\ interp \in { [InterpreterNew EXCEPT !.envs[1].bindings = @ @@ ("a" :> a) @@ ("b" :> b)] :
                        a \in Objects, b \in Objects }
    /\ trace = <<>>
    /\ result = Ok(Unit)
    /\ steps = 0
    /\ parser = ParserIdle
    /\ declarations = <<>>
    /\ pstatus = "idle"
    /\ lastsync = None
    /\ lexer = LexerIdle
    /\ lstatus = "idle"
    /\ lresult = None

\* eval_binary of  a == b  or of  a != b
EvalEquality(ty) ==
    LET st == [envs |-> interp.envs, global |-> interp.global, current |-> interp.current,
               out |-> interp.out, trace |-> <<>>, depth |-> 0, fuel |-> MaxFuel]
        a == eval_binary(st, Binary(V("a"), Token("", ty, 1), V("b")))
    IN /\ trace = <<>>
       /\ trace' = <<[ev |-> "equality", op |-> ty,
                      left |-> interp.envs[1].bindings["a"],
                      right |-> interp.envs[1].bindings["b"], res |-> a.r]>>
       /\ result' = a.r
       /\ UNCHANGED <<interp, steps, pvars, lvars>>

NextEq == EvalEquality("EqualEqual") \/ EvalEquality("BangEqual")

SpecEq == InitEq /\ [][NextEq]_vars

----------------------------------------------------------------------------
(* Properties of the evaluator *)

Events(kind) == { i \in 1..Len(trace) : trace[i].ev = kind }

\* C1: every execution of a block (a block statement or a function body)
\* leaves `current` as it was before the block started, whether the block
\* completed normally, with a runtime error or with a return signal.
C1_BlockRestoresCurrent ==
    \A i \in Events("block") : trace[i].after = trace[i].previous

\* C2: the environment created for a call of a user function has as its
\* parent the environment in which the function was declared, not the
\* caller's current environment.
C2_LexicalScope ==
    \A i \in Events("call") : trace[i].enclosing = trace[i].site

\* C3: a `let x` executed inside a block or function body binds x in that
\* block's environment only: reading x from the enclosing scope gives after
\* the let exactly what it gave before (the same value or the same
\* undefined-variable error).
C3_LetIsBlockScoped ==
    \A i \in Events("let") :
        trace[i].outer # 0 => trace[i].outer_after = trace[i].outer_before

\* C4: assignment never creates a binding: when x is bound in no environment
\* on the chain from `current` to the global root, assigning to x fails with
\* a runtime error and every environment keeps exactly its bindings.
C4_AssignNeverCreates ==
    \A i \in Events("assign") :
        ~Bound(trace[i].before, trace[i].current, trace[i].name)
            => /\ trace[i].res.k = "Err"
               /\ trace[i].res.fam = "RuntimeError"
               /\ trace[i].after = trace[i].before

\* C4 witness: an assignment to a name bound nowhere on the chain was
\* evaluated inside a function body or block and failed.
C4_Witness ==
    \E i \in Events("assign") :
        /\ ~Bound(trace[i].before, trace[i].current, trace[i].name)
        /\ trace[i].current # interp.global
        /\ trace[i].res.k = "Err"

\* The nearest environment on the chain from e that binds name (0 if none).
RECURSIVE Nearest(_, _, _)
Nearest(envs, e, name) ==
    IF e = 0 THEN 0
    ELSE IF name \in DOMAIN envs[e].bindings THEN e
    ELSE Nearest(envs, envs[e].enclosing, name)

\* C5: an assignment resolves its name starting from `current`: when the
\* nearest binding is in a non-global environment the assignment succeeds,
\* evaluates to the assigned value, overwrites that binding and leaves every
\* other environment (the global one included) unchanged.
C5_AssignNearestBinding ==
    \A i \in Events("assign") :
        LET e == Nearest(trace[i].before, trace[i].current, trace[i].name)
        IN (e # 0 /\ e # interp.global)
            => /\ trace[i].res = Ok(trace[i].value)
               /\ trace[i].after[e].bindings[trace[i].name] = trace[i].value
               /\ \A o \in 1..Len(trace[i].before) :
                      o # e => trace[i].after[o] = trace[i].before[o]

\* The value a call gives for a return signal.
Returned(value) == IF value = None THEN Ok(Null) ELSE Ok(value)

\* C6: a return executed inside a user function body, at any depth of
\* blocks, if and while, ends exactly the innermost enclosing call: nothing
\* but the unwinding of the enclosing blocks happens between the return and
\* the end of that call, the call evaluates to the returned value (Null for
\* a bare return or a body that ends without return), and the signal is
\* never the result reported for the program.
C6_ReturnEndsInnermostCall ==
    /\ \A i \in Events("return") :
          trace[i].depth > 0 =>
            \E j \in Events("call_exit") :
                /\ j > i
                /\ trace[j].depth = trace[i].depth
                /\ trace[j].res = Returned(trace[i].value)
                /\ \A m \in (i + 1)..(j - 1) :
                      trace[m].ev = "block" /\ trace[m].outcome = "Return"
    /\ \A j \in Events("call_exit") : trace[j].body.k = "Ok" => trace[j].res = Ok(Null)
    /\ result.k = "Return" => \A i \in Events("return") : trace[i].depth = 0

\* C6 witness: a return nested in a block inside an if inside a while ended
\* the call with its value, and the caller went on to print it.
C6_Witness ==
    \E i \in Events("return"), j \in Events("call_exit") :
        /\ trace[i].depth = 1
        /\ j > i + 3
        /\ trace[j].res = Ok(Number(1))
        /\ result.k = "Ok"
        /\ Len(interp.out) > 0
        /\ interp.out[Len(interp.out)] = "1"

\* Whether eval_logical must give back the left operand without evaluating
\* the right one.
ShortCircuits(op, left) ==
    \/ op = "Or" /\ thrutiness(left)
    \/ op = "And" /\ ~thrutiness(left)

\* C11: in `a or b` the right operand is evaluated if and only if a is
\* falsy, in `a and b` if and only if a is truthy; a skipped operand changes
\* no environment and does nothing, and the result is the value of the last
\* operand evaluated, not a boolean made of it.
C11_ShortCircuit ==
    \A i \in Events("logical") :
        /\ (trace[i].right = None) <=> ShortCircuits(trace[i].op, trace[i].left)
        /\ trace[i].right = None =>
              /\ trace[i].after = trace[i].mid
              /\ trace[i].midlen = i - 1
              /\ trace[i].res = Ok(trace[i].left)
        /\ trace[i].right # None => trace[i].res = trace[i].right

\* C11 witness: `1 or (x = 5)` with x bound to 1 gave the number 1, was
\* printed as 1 and left x as it was.
C11_Witness ==
    \E i \in Events("logical") :
        /\ trace[i].op = "Or"
        /\ trace[i].left = Number(1)
        /\ trace[i].right = None
        /\ trace[i].res = Ok(Number(1))
        /\ "x" \in DOMAIN interp.envs[interp.global].bindings
        /\ interp.envs[interp.global].bindings["x"] = Number(1)
        /\ interp.out # <<>>
        /\ interp.out[Len(interp.out)] = "1"

\* The number of arguments a callable value takes: a user function its
\* parameters, println one.
Takes(callee) ==
    IF callee.c.kind = "Println" THEN 1 ELSE Len(callee.c.declaration.params)

\* C12: a call invokes the callee if and only if the callee is a Callable
\* and the number of arguments is its arity.  A callee that is not callable
\* gives "Expected callable object", a wrong number of arguments gives
\* "Expected N argument(s), but M were found", both at the line of the paren
\* token; in both cases no body is executed and no parameter is bound.
C12_CallChecksCalleeAndArity ==
    \A i \in Events("eval_call") :
        LET e == trace[i]
            refused == /\ e.midlen = i - 1
                       /\ e.after = e.mid
                       /\ e.out = e.midout
        IN /\ e.callee.k # "Callable" =>
                /\ e.res = runtime_error(e.line, "Expected callable object")
                /\ refused
           /\ (e.callee.k = "Callable" /\ Takes(e.callee) # e.nargs) =>
                /\ e.res = runtime_error(e.line,
                              "Expected " \o ToString(Takes(e.callee)) \o " argument(s), but "
                              \o ToString(e.nargs) \o " were found")
                /\ refused
           /\ (e.callee.k = "Callable" /\ Takes(e.callee) = e.nargs) =>
                IF e.callee.c.kind = "Println"
                THEN Len(e.out) = Len(e.midout) + 1
                ELSE /\ trace[e.midlen + 1].ev = "call"
                     /\ trace[e.midlen + 1].fn = e.callee.c.declaration.ident.lexeme

\* C12 witness: f, which takes one parameter, was called with two arguments
\* by a call whose paren is on line 2, and was refused.
C12_Witness ==
    \E i \in Events("eval_call") :
        /\ trace[i].callee.k = "Callable"
        /\ trace[i].callee.c.kind = "Function"
        /\ trace[i].nargs = 2
        /\ trace[i].res = runtime_error(2, "Expected 1 argument(s), but 2 were found")
        /\ result = trace[i].res

\* Event i reports that an expression, a statement, a block or a call ended
\* with an error diagnostic.
Failed(i) ==
    /\ trace[i].ev \in {"failed", "block", "call_exit", "eval_call", "logical", "assign"}
    /\ trace[i].res.k = "Err"

\* C13: the first runtime error aborts evaluation.  After an error was
\* reported nothing happens but the error being handed on unchanged, through
\* blocks and calls, up to the result of the program: no later statement or
\* declaration is executed, no binding changes, nothing is printed, and no
\* call turns the error into a value.
C13_FirstErrorAborts ==
    \A i \in 1..Len(trace) :
        Failed(i) =>
            /\ \A m \in (i + 1)..Len(trace) :
                   /\ Failed(m)
                   /\ trace[m].res = trace[i].res
                   /\ trace[m].envs_at = trace[i].envs_at
                   /\ trace[m].out_at = trace[i].out_at
            /\ result = trace[i].res
            /\ interp.envs = trace[i].envs_at
            /\ interp.out = trace[i].out_at

\* C13 witness: the first statement of the body of e failed in a call made
\* for an argument of println; the call ended with that error, x kept its
\* value 1 and nothing was printed.
C13_Witness ==
    \E i, j \in 1..Len(trace) :
        /\ trace[i].ev = "failed"
        /\ trace[i].depth = 1
        /\ trace[i].res = runtime_error(1, "Expected number")
        /\ j > i
        /\ trace[j].ev = "call_exit"
        /\ trace[j].res = trace[i].res
        /\ result = trace[i].res
        /\ "x" \in DOMAIN interp.envs[interp.global].bindings
        /\ interp.envs[interp.global].bindings["x"] = Number(1)
        /\ interp.out = <<>>

\* C14: a return executed outside every user function call (at top level,
\* possibly inside blocks, if or while) is reported as the runtime error
\* "return outside function", not as the return signal itself.
C14_ReturnOutsideFunctionIsError ==
    \A i \in Events("return") :
        trace[i].depth = 0 =>
            /\ result.k = "Err"
            /\ result.fam = "RuntimeError"
            /\ result.msg = "return outside function"

\* The environment without parent that the parent links lead to from e, or
\* 0 if they come back to an environment already visited.
RECURSIVE RootOf(_, _, _)
RootOf(envs, e, seen) ==
    IF envs[e].enclosing = 0 THEN e
    ELSE IF envs[e].enclosing \in seen \cup {e} THEN 0
    ELSE RootOf(envs, envs[e].enclosing, seen \cup {e})

\* C17: in every state of the interpreter, also in the middle of blocks and
\* calls, the parent links from `current` and from every environment ever
\* created lead to the global environment without visiting an environment
\* twice.
C17_ChainAcyclicAndRooted ==
    /\ interp.current \in 1..Len(interp.envs)
    /\ \A e \in 1..Len(interp.envs) : RootOf(interp.envs, e, {}) = interp.global
    /\ \A i \in 1..Len(trace) :
          \A e \in 1..Len(trace[i].envs_at) : RootOf(trace[i].envs_at, e, {}) = interp.global

\* C17 witness: a call made inside a call ended with `current` left on an
\* environment two parent links away from the global one.
C17_Witness ==
    LET parent == interp.envs[interp.current].enclosing
    IN /\ Events("call_exit") # {}
       /\ parent # 0
       /\ interp.envs[parent].enclosing = interp.global
       /\ result.k = "Ok"

----------------------------------------------------------------------------
(* Properties of Environment *)

\* C15: get gives the value of the binding in the nearest environment, from
\* the receiver through the parent links, that binds the name; it fails,
\* with "Undefined variable '<name>'" and the line of the token, if and only
\* if no environment on the chain binds it; it changes no environment.
C15_GetNearestBinding ==
    \A i \in Events("get") :
        LET e == trace[i]
            n == Nearest(e.before, e.env, e.key.lexeme)
        IN /\ n # 0 => e.res = Ok(e.before[n].bindings[e.key.lexeme])
           /\ n = 0 => /\ e.res.k = "Err"
                       /\ e.res.msg = "Undefined variable '" \o e.key.lexeme \o "'"
                       /\ e.res.line = e.key.line
           /\ e.after = e.before

\* C15 witness: x was read from an environment that does not bind it, whose
\* parent binds it to 2 and whose grandparent binds it to 1; the read gave 2.
C15_Witness ==
    \E i \in Events("get") :
        LET e == trace[i]
            parent == e.before[e.env].enclosing
            grandparent == e.before[parent].enclosing
        IN /\ e.key.lexeme = "x"
           /\ parent # 0
           /\ grandparent # 0
           /\ "x" \notin DOMAIN e.before[e.env].bindings
           /\ "x" \in DOMAIN e.before[parent].bindings
           /\ e.before[parent].bindings["x"] = Number(2)
           /\ "x" \in DOMAIN e.before[grandparent].bindings
           /\ e.before[grandparent].bindings["x"] = Number(1)
           /\ e.res = Ok(Number(2))

\* C16: define always succeeds and changes only the receiver's binding of
\* the name: every other name of the receiver and every other environment,
\* an ancestor's binding of the same name included, is unchanged, and a get
\* of the name from the receiver gives the value.
C16_DefineChangesOnlyReceiver ==
    \A i \in Events("define") :
        LET e == trace[i]
        IN /\ result = Ok(Unit)
           /\ Len(e.after) = Len(e.before)
           /\ DOMAIN e.after[e.env].bindings = DOMAIN e.before[e.env].bindings \cup {e.key}
           /\ e.after[e.env].bindings[e.key] = e.value
           /\ \A k \in DOMAIN e.before[e.env].bindings :
                  k # e.key => e.after[e.env].bindings[k] = e.before[e.env].bindings[k]
           /\ e.after[e.env].enclosing = e.before[e.env].enclosing
           /\ \A o \in 1..Len(e.before) : o # e.env => e.after[o] = e.before[o]
           /\ get(e.after, e.env, Token(e.key, "Identifier", 1)) = Ok(e.value)

\* C16 witness: x was defined as 2 in an environment whose parent binds x
\* to 1 and which itself binds y; the parent still binds x to 1.
C16_Witness ==
    \E i \in Events("define") :
        LET e == trace[i]
            parent == e.before[e.env].enclosing
        IN /\ e.key = "x"
           /\ e.value = Number(2)
           /\ parent # 0
           /\ "y" \in DOMAIN e.before[e.env].bindings
           /\ "x" \in DOMAIN e.after[parent].bindings
           /\ e.after[parent].bindings["x"] = Number(1)
           /\ e.after[e.env].bindings["x"] = Number(2)

----------------------------------------------------------------------------
(* Properties of the parser *)

\* C7: for every finite token list parse terminates with the declarations
\* or the diagnostics, also when the input ends inside an unclosed argument
\* list or right after an unmatched '('.
C7_ParseTerminates == pstatus # "diverged"

\* C8: once the cursor has passed the last token the lookahead matches no
\* token kind: no rule takes the last token a second time, and every attempt
\* to consume a token at end of stream yields a syntax diagnostic.
C8_EndOfStreamIsSentinel == ~parser.eos_ok

\* C9: when a let declaration is missing its ';' and the token at the error
\* position starts a declaration, parse resumes at that token, so that the
\* following declaration is parsed and not skipped.
C9_RecoveryKeepsNextDeclaration ==
    ( /\ lastsync # None
      /\ lastsync.err.msg = "Expect ';' after variable declaration"
      /\ lastsync.from < Len(parser.tokens)
      /\ parser.tokens[lastsync.from + 1].ty \in DeclStart )
    => lastsync.to = lastsync.from

\* A cursor position c at which synchronize stops.
ResumptionPoint(c) ==
    \/ c >= Len(parser.tokens)
    \/ parser.tokens[c].ty = "Semicolon"
    \/ parser.tokens[c + 1].ty \in DeclStart

\* C10: a call of synchronize consumes at least one token unless the stream
\* is finished; where it returns, the stream is finished, or the previously
\* consumed token is ';', or the upcoming token starts a declaration or
\* statement; and it stops at the first such position after the token it
\* consumes unconditionally.
C10_SynchronizePostcondition ==
    lastsync # None =>
        /\ lastsync.from < Len(parser.tokens) => lastsync.to > lastsync.from
        /\ ResumptionPoint(lastsync.to)
        /\ \A c \in (lastsync.from + 1)..(lastsync.to - 1) : ~ResumptionPoint(c)

\* C10 witness: synchronize skipped more than one token and stopped after a
\* ';' before the end of the stream.
C10_Witness ==
    /\ lastsync # None
    /\ lastsync.to > lastsync.from + 1
    /\ lastsync.to < Len(parser.tokens)
    /\ parser.tokens[lastsync.to].ty = "Semicolon"

----------------------------------------------------------------------------
(* Properties of the lexer *)

\* The token kind of each punctuation character
PunctuationKind ==
    ("(" :> "LeftParen") @@ (")" :> "RightParen") @@ ("{" :> "LeftBrace") @@
    ("}" :> "RightBrace") @@ ("," :> "Comma") @@ (";" :> "Semicolon") @@
    ("-" :> "Minus") @@ ("+" :> "Plus") @@ ("*" :> "Star") @@ ("/" :> "Slash")

\* The kinds of the tokens of a list, in order
Kinds(tokens) == [i \in 1..Len(tokens) |-> tokens[i].ty]

\* C18: every iteration of tokenize that starts at one of the characters
\* ( ) { } , ; - + * / succeeds and adds exactly one token, of the kind of
\* that character, with the character as its lexeme; the source "1 / 0"
\* gives the tokens Number, Slash, Number.
C18_PunctuationLexed ==
    /\ \A i \in 1..Len(lexer.scans) :
          LET s == lexer.scans[i]
          IN s.char \in DOMAIN PunctuationKind =>
                /\ s.r = Ok(Unit)
                /\ s.added = <<[ty |-> PunctuationKind[s.char], lexeme |-> s.char,
                                line |-> s.line]>>
    /\ (lstatus = "done" /\ lexer.source = <<"1", " ", "/", " ", "0">>) =>
          /\ lresult.k = "Ok"
          /\ Kinds(lresult.v) = <<"Number", "Slash", "Number">>

\* The first index from k on whose character is not a digit, Len + 1 when
\* the digits run to the end of the source (indices from 1).
RECURSIVE RunEnd(_, _)
RunEnd(source, k) ==
    IF k <= Len(source) /\ source[k] \in Digits THEN RunEnd(source, k + 1) ELSE k

\* The index after the numeric literal that starts at index p: the digit
\* run, and a '.' with the digit run after it when a digit follows the '.'.
LiteralEnd(source, p) ==
    LET e == RunEnd(source, p)
    IN IF e + 1 <= Len(source) /\ source[e] = "." /\ source[e + 1] \in Digits
       THEN RunEnd(source, e + 1)
       ELSE e

\* C19: every iteration of tokenize that starts at a digit succeeds and adds
\* one Number token whose lexeme is the digit run, with a '.' and the digits
\* after it only when a digit follows the '.', and leaves the cursor right
\* after that lexeme; a '.' left over is lexed by the next iteration as Dot,
\* or as DotDot with the '.' after it; no such iteration panics by reading
\* past the end of the source.
C19_NumberLiteral ==
    \A i \in 1..Len(lexer.scans) :
        LET s == lexer.scans[i]
            p == s.pos + 1
            e == LiteralEnd(lexer.source, p)
        IN s.char \in Digits =>
              /\ s.r = Ok(Unit)
              /\ Len(s.added) = 1
              /\ s.added[1].ty = "Number"
              /\ s.added[1].lexeme = Concat(SubSeq(lexer.source, p, e - 1))
              /\ s.to = e - 1
              /\ (i < Len(lexer.scans) /\ lexer.scans[i + 1].char = ".") =>
                    LET d == lexer.scans[i + 1]
                        two == e + 1 <= Len(lexer.source) /\ lexer.source[e + 1] = "."
                    IN /\ d.r = Ok(Unit)
                       /\ Kinds(d.added) = <<IF two THEN "DotDot" ELSE "Dot">>

\* The newlines among the first n characters of a source
Newlines(source, n) == Cardinality({ i \in 1..n : source[i] = "\n" })

\* The diagnostic of an unexpected character
IsUnexpected(r) ==
    r.k = "Err" /\ \E c \in Characters \cup Punctuation : r.msg = "Unexpected Token '" \o c \o "'"

\* The diagnostics of the iterations so far, in order
RECURSIVE Diagnostics(_)
Diagnostics(scans) ==
    IF scans = <<>> THEN <<>>
    ELSE IF Head(scans).r.k = "Err" THEN <<Head(scans).r>> \o Diagnostics(Tail(scans))
    ELSE Diagnostics(Tail(scans))

\* C20: tokenize never panics and scans the source to its end; an iteration
\* that meets an unexpected character consumes that character alone, adds no
\* token and one diagnostic, whose line is 1 plus the number of newlines
\* before the character; the diagnostics accumulated are those of the
\* iterations in source order; tokenize returns the tokens when there is no
\* diagnostic and otherwise fails with all of them.
C20_ErrorsAccumulated ==
    /\ lstatus # "panic"
    /\ \A i \in 1..Len(lexer.scans) :
          LET s == lexer.scans[i]
          IN IsUnexpected(s.r) =>
                /\ s.r = syntax_error(1 + Newlines(lexer.source, s.pos),
                                      "Unexpected Token '" \o s.char \o "'")
                /\ s.to = s.pos + 1
                /\ s.added = <<>>
    /\ lexer.errors = Diagnostics(lexer.scans)
    /\ lstatus = "done" =>
          /\ lexer.current = Len(lexer.source)
          /\ lresult = IF Diagnostics(lexer.scans) = <<>> THEN Ok(lexer.tokens)
                        ELSE [k |-> "Err", errors |-> Diagnostics(lexer.scans)]

----------------------------------------------------------------------------
(* Properties of equality *)

\* Two values of the same kind among Null, Boolean, Number, Str with the same
\* payload
SameValue(l, r) == l.k \in {"Null", "Boolean", "Number", "Str"} /\ l = r

\* C21: l == r is true exactly when l and r are of the same kind among Null,
\* Boolean, Number, Str with equal payloads, and false otherwise (different
\* kinds, or a callable on either side, itself included); l != r is the
\* negation.  So v == v is true for every v that is not a callable.
C21_Equality ==
    \A i \in 1..Len(trace) :
        trace[i].ev = "equality" =>
            /\ trace[i].op = "EqualEqual" =>
                    trace[i].res = Ok(Boolean(SameValue(trace[i].left, trace[i].right)))
            /\ trace[i].op = "BangEqual" =>
                    trace[i].res = Ok(Boolean(~SameValue(trace[i].left, trace[i].right)))

----------------------------------------------------------------------------
(* Properties of the parser: the grammar *)

\* C22: parse of  fn f ( x ) { return x ; }  gives one FnDecl with the name
\* f, the parameter x and the body block holding a Return statement; parse
\* of  return ;  gives a Return statement without expression; the closure
\* scenario parses without diagnostics into its three declarations.
C22_FnAndReturnParsed ==
    pstatus = "done" =>
        /\ parser.tokens = FnTokens =>
              /\ parser.errors = <<>>
              /\ declarations =
                    << FnDecl(FnTokens[2], <<FnTokens[4]>>,
                              BlockStmt(<<StmtDecl(ReturnStmt(FnTokens[7],
                                                               Var(FnTokens[8])))>>)) >>
        /\ parser.tokens = ReturnTokens =>
              /\ parser.errors = <<>>
              /\ declarations = << StmtDecl(ReturnStmt(ReturnTokens[1], None)) >>
        /\ parser.tokens = ClosureTokens =>
              /\ parser.errors = <<>>
              /\ Len(declarations) = 3

\* C24: the body of if, of else and of while may be any statement:
\* if x y ;  parses into an If whose branch is the expression statement y,
\* while x y ;  into a While whose body is that statement, and
\* if x { } else if y { }  into an If whose else branch is the inner If.
C24_AnyStatementAsBody ==
    pstatus = "done" =>
        /\ parser.tokens = IfTokens =>
              /\ parser.errors = <<>>
              /\ declarations =
                    << StmtDecl(IfStmt(Var(IfTokens[2]), ExprStmt(Var(IfTokens[3])), None)) >>
        /\ parser.tokens = WhileTokens =>
              /\ parser.errors = <<>>
              /\ declarations =
                    << StmtDecl(WhileStmt(Var(WhileTokens[2]), ExprStmt(Var(WhileTokens[3])))) >>
        /\ parser.tokens = ElseIfTokens =>
              /\ parser.errors = <<>>
              /\ declarations =
                    << StmtDecl(IfStmt(Var(ElseIfTokens[2]), BlockStmt(<<>>),
                                       IfStmt(Var(ElseIfTokens[7]), BlockStmt(<<>>), None))) >>

\* { x ; }
BlockTokens ==
    << T("{", "LeftBrace"), T("x", "Identifier"), T(";", "Semicolon"), T("}", "RightBrace") >>

\* C25: parse never panics, whatever the first token of the list is; the
\* list  { x ; }  is parsed as a block statement.
C25_ParseNeverPanics ==
    /\ pstatus # "panic"
    /\ (pstatus = "done" /\ parser.tokens = BlockTokens) =>
          /\ parser.errors = <<>>
          /\ declarations = << StmtDecl(BlockStmt(<<StmtDecl(ExprStmt(Var(BlockTokens[2])))>>)) >>

----------------------------------------------------------------------------
(* Properties of the lexer: the cursor *)

\* C26: for every source, also one with a character of more than one byte,
\* tokenize does not panic; its test for the end of the source is true
\* exactly when the cursor has passed the last character; and the lexeme of
\* every token is the source text from the character where its scan
\* started to the cursor after it.
C26_CursorConsistent ==
    /\ lstatus # "panic"
    /\ lstatus = "scanning" => (Lexer_finished(lexer) <=> lexer.current >= Len(lexer.source))
    /\ \A i \in 1..Len(lexer.scans) :
          LET s == lexer.scans[i]
          IN \A j \in 1..Len(s.added) :
                s.added[j].lexeme = Concat(SubSeq(lexer.source, s.pos + 1, s.to))

----------------------------------------------------------------------------
(* Properties of the for loop *)

\* C23: wherever the block built for  for x in 0..2 { println(x); }  is
\* executed (at top level, or in the body of a function whose parameter is
\* x), it ends without error and its body has run for x = 0 and x = 1 in
\* this order: the output has grown by the lines 0 and 1.
C23_ForLoopRuns ==
    \A i \in 1..Len(trace) :
        (trace[i].ev = "block" /\ trace[i].stmts = ForLoop.stmts) =>
            /\ trace[i].res = Ok(Unit)
            /\ trace[i].out_at = trace[i].out_before \o <<"0", "1">>

----------------------------------------------------------------------------
(* Properties of the evaluation of parsed programs *)

\* C27: no declaration ends in a host panic: each ends with Ok, with a
\* runtime error or with the Return signal; the parser accepts
\* let r = 1 .. 2 ;  as a let declaration, and its evaluation ends with a
\* result or a diagnostic; the block built for a for loop is a let and a
\* while over number literals, without a Range node.
C27_EvaluationNeverPanics ==
    /\ result.k # "Panic"
    /\ RangeDecl.t = "LetDecl"
    /\ ForLoop =
          BlockStmt(<< LetDecl(Id("x"), Num(0)),
                       StmtDecl(WhileStmt(
                           Binary(V("x"), T("<", "Less"), Num(2)),
                           BlockStmt(<< PrintOf(V("x")),
                                        S(Assignment(Id("x"),
                                              Binary(V("x"), T("+", "Plus"), Num(1)))) >>))) >>)


====
